---- MODULE Spec2Model ----
(***************************************************************************)
(* Patient-portal backend: the appointment scheduling engine               *)
(* (appointmentController) and the authentication session state machine    *)
(* (authController, userController.changePassword, AuthService).           *)
(*                                                                         *)
(* Every request handler is a process; each `await` on the store is one    *)
(* atomic step, a prisma.$transaction block is one atomic step.            *)
(* Time is in hours for the scheduler (`now`), in minutes for the           *)
(* authentication controller (`clock`), in seconds for AuthService (`secs`).*)
(***************************************************************************)
EXTENDS Integers, Sequences, FiniteSets, TLC

(***************************************************************************)
(* Bounds                                                                  *)
(***************************************************************************)
NumProcs == 2
MaxAppts == 2
MaxTicks == 1
MaxSessions == 2
MaxAuthTicks == 1
MaxOtps == 2
MaxTokens == 3
MaxSvcTicks == 1
MaxCalls == 5

Procs == 1..NumProcs

(***************************************************************************)
(* Scheduler: static catalogue                                             *)
(***************************************************************************)
Users == {"u1", "u2"}
DoctorIds == {"d1", "d2"}
UnitIds == {"un1"}
SpecialtyIds == {"sp1"}
Dates == {1, 2}
Times == {9, 21}
NoDate == 0
NoTime == 0
NoDep == "nodep"
NoNotes == "undefined"
NotesValues == {"n"}
DepIds == {"dep1"}

\* the doctor table: d1 is active at (un1, sp1), d2 is inactive
Doctor == [d \in DoctorIds |->
             [unitId |-> "un1", specialtyId |-> "sp1", isActive |-> (d = "d1")]]

\* the availability grid of d1: every (date, time) but the last one
GridKeys == {<<"d1", 1, 9>>, <<"d1", 1, 21>>, <<"d1", 2, 9>>}

\* who asks for an appointment, and for which dependent: u1 for u1, u2 for
\* dep1, who is a dependent of u1
CreateCallers == {<<"u1", NoDep>>, <<"u2", "dep1">>}

\* the bodies of the update requests: notes alone, a time alone, a full
\* (date, time)
UpdateBodies ==
  {<<NoDate, NoTime, "n">>, <<NoDate, 21, NoNotes>>}
    \cup {<<d, t, NoNotes>> : d \in Dates, t \in Times}

\* u1 asks for an appointment of dep1, their own dependent
DependentCallers == {<<"u1", "dep1">>}

\* the bodies of the update requests that reschedule: a time alone, a full
\* (date, time)
RescheduleBodies == {<<NoDate, 21, NoNotes>>, <<1, 9, NoNotes>>}

\* the slot the seed marks booked
SeedBooked == <<"d1", 2, 9>>

StartHour == 9
HoursPerDay == 24
TickHours == 24
CancelLeadHours == 24

VARIABLES now, slots, appointments, dependents, pc, req, snap, result, serial,
          confirmation, listing

apptVars == <<now, slots, appointments, dependents, pc, req, snap, result, serial,
              confirmation, listing>>

\* the authentication controller: the AuthSession table, the password column
\* of User, the clock in minutes, the refresh tokens handed to clients and
\* those handed out before a password change; the handlers of its requests
VARIABLES sessions, nSessions, password, clock, issued, revoked, apc, areq, ares

authVars == <<sessions, nSessions, password, clock, issued, revoked, apc, areq, ares>>

\* AuthService: the OTPCode and RefreshToken tables, the refresh tokens handed
\* to clients, the clock in seconds; the handlers of its calls
VARIABLES otps, nOtps, rtokens, nTokens, handed, secs, spc, sreq, sres

svcVars == <<otps, nOtps, rtokens, nTokens, handed, secs, spc, sreq, sres>>

\* The request counts of the /resend-2fa rate limiter, and the number of
\* resend requests each user has made since the clock last left the window
VARIABLES userRequests, resendAttempts, calls

limVars == <<userRequests, resendAttempts, calls>>

\* The isActive column of User
VARIABLES active

userVars == <<active>>

vars == <<apptVars, authVars, svcVars, limVars, userVars>>

NoReq == [op |-> "none", userId |-> "u1", doctorId |-> "d1", unitId |-> "un1",
          specialtyId |-> "sp1", date |-> NoDate, time |-> NoTime,
          dependentId |-> NoDep, notes |-> NoNotes, appointmentId |-> 0]

\* what Promise.allSettled([smsPromise, emailPromise]) settled to
NoConfirmation == [sms |-> TRUE, email |-> TRUE]

NoSnap == [id |-> 0, doctorId |-> "d1", date |-> NoDate, time |-> NoTime]

\* new Date(`${date}T${time}`).getTime(), in hours
DateTimeHours(date, time) == HoursPerDay * date + time

Key(doctorId, date, time) == <<doctorId, date, time>>

\* prisma.appointment.findFirst({doctorId, date, time, status: SCHEDULED, id: {not: exceptId}})
ExistingScheduled(doctorId, date, time, exceptId) ==
  \E i \in 1..Len(appointments) :
     /\ i # exceptId
     /\ appointments[i].doctorId = doctorId
     /\ appointments[i].date = date
     /\ appointments[i].time = time
     /\ appointments[i].status = "SCHEDULED"

\* prisma.doctorAvailability.findUnique(...): !availability || availability.isBooked
SlotUnavailable(doctorId, date, time) ==
  \/ Key(doctorId, date, time) \notin DOMAIN slots
  \/ slots[Key(doctorId, date, time)]

\* tx.doctorAvailability.updateMany({where: key, data: {isBooked: b}})
UpdateManySlots(s, k, b) ==
  IF k \in DOMAIN s THEN [s EXCEPT ![k] = b] ELSE s

FindOwnScheduled_AnyUser(id, userId) ==
  /\ id \in 1..Len(appointments)
  /\ appointments[id].status = "SCHEDULED"

\* prisma.appointment.findFirst({id, userId, status: SCHEDULED})
FindOwnScheduled(id, userId) ==
  /\ id \in 1..Len(appointments)
  /\ appointments[id].userId = userId
  /\ appointments[id].status = "SCHEDULED"

\* authenticateToken: user.findUnique({id: decoded.userId, isActive: true}) for
\* the bearer of a valid access token
Authenticated(userId) == active[userId]

InFlight(p) == pc[p] \notin {"idle", "done"}

\* the handler has its response
Finish(p, r) ==
  /\ pc' = [pc EXCEPT ![p] = "done"]
  /\ result' = [result EXCEPT ![p] = r]

\* a request enters the first free handler; a handler whose response is ready
\* sends it without waiting for anything (there is no await before res.json)
Begin(p) ==
  /\ pc[p] = "idle"
  /\ \A q \in Procs : pc[q] # "done"
  /\ \A q \in Procs : q < p => pc[q] # "idle"
  /\ serial => \A q \in Procs : pc[q] = "idle"

\* the store with the slots of booked marked booked and no appointment
InitGrid(oneAtATime, booked) ==
  /\ serial = oneAtATime
  /\ now = StartHour
  /\ slots = [k \in GridKeys |-> k \in booked]
  /\ appointments = <<>>
  /\ dependents = [d \in DepIds |-> [userId |-> "u1", isActive |-> TRUE]]
  /\ pc = [p \in Procs |-> "idle"]
  /\ req = [p \in Procs |-> NoReq]
  /\ snap = [p \in Procs |-> NoSnap]
  /\ result = [p \in Procs |-> "none"]
  /\ confirmation = [p \in Procs |-> NoConfirmation]
  /\ listing = [p \in Procs |-> <<>>]

InitAppt(oneAtATime) == InitGrid(oneAtATime, {SeedBooked})

(***************************************************************************)
(* createAppointment                                                       *)
(***************************************************************************)
\* validate(validationSchemas.createAppointment) and doctor.findFirst
CreateStartFrom(p, callers) ==
  \E ud \in callers, d \in DoctorIds, un \in UnitIds, dt \in Dates,
     tm \in Times :
    LET u == ud[1]
        dep == ud[2] IN
    /\ Begin(p)
    /\ Len(appointments)
         + Cardinality({q \in Procs : InFlight(q) /\ req[q].op = "create"})
         < MaxAppts
    /\ req' = [req EXCEPT ![p] =
                 [NoReq EXCEPT !.op = "create", !.userId = u, !.doctorId = d,
                               !.unitId = un, !.date = dt, !.time = tm,
                               !.dependentId = dep]]
    /\ IF ~Authenticated(u)
         THEN Finish(p, "Unauthorized")
       ELSE IF HoursPerDay * dt < now
         THEN Finish(p, "ValidationError")
       ELSE IF ~(Doctor[d].unitId = un /\ Doctor[d].specialtyId = "sp1"
                 /\ Doctor[d].isActive)
         THEN Finish(p, "BadRequest")
       ELSE /\ pc' = [pc EXCEPT ![p] = IF dep # NoDep THEN "c_dep" ELSE "c_existing"]
            /\ UNCHANGED result
    /\ UNCHANGED <<now, slots, appointments, dependents, snap, serial, confirmation, listing, authVars, svcVars, limVars, userVars>>

CreateStart(p) == CreateStartFrom(p, CreateCallers)

\* the requests of u1 for an appointment of their dependent
CreateStartDependent(p) == CreateStartFrom(p, DependentCallers)

\* dependent.findFirst({id, userId, isActive: true})
CreateCheckDependent(p) ==
  /\ pc[p] = "c_dep"
  /\ LET dep == dependents[req[p].dependentId] IN
       IF dep.userId = req[p].userId /\ dep.isActive
         THEN pc' = [pc EXCEPT ![p] = "c_existing"] /\ UNCHANGED result
         ELSE Finish(p, "BadRequest")
  /\ UNCHANGED <<now, slots, appointments, dependents, req, snap, serial, confirmation, listing, authVars, svcVars, limVars, userVars>>

\* appointment.findFirst: a SCHEDULED appointment at (doctor, date, time)
CreateCheckExisting(p) ==
  /\ pc[p] = "c_existing"
  /\ IF ExistingScheduled(req[p].doctorId, req[p].date, req[p].time, 0)
       THEN Finish(p, "ConflictAppointment")
       ELSE pc' = [pc EXCEPT ![p] = "c_avail"] /\ UNCHANGED result
  /\ UNCHANGED <<now, slots, appointments, dependents, req, snap, serial, confirmation, listing, authVars, svcVars, limVars, userVars>>

\* doctorAvailability.findUnique
CreateCheckAvailability(p) ==
  /\ pc[p] = "c_avail"
  /\ IF SlotUnavailable(req[p].doctorId, req[p].date, req[p].time)
       THEN Finish(p, "ConflictAgenda")
       ELSE pc' = [pc EXCEPT ![p] = "c_tx"] /\ UNCHANGED result
  /\ UNCHANGED <<now, slots, appointments, dependents, req, snap, serial, confirmation, listing, authVars, svcVars, limVars, userVars>>

NewAppointment(r) ==
  [userId |-> r.userId, dependentId |-> r.dependentId, doctorId |-> r.doctorId,
   date |-> r.date, time |-> r.time, status |-> "SCHEDULED", notes |-> r.notes]

\* prisma.$transaction: appointment.create, doctorAvailability.update
CreateTransaction(p) ==
  /\ pc[p] = "c_tx"
  /\ LET k == Key(req[p].doctorId, req[p].date, req[p].time) IN
       IF k \in DOMAIN slots
         THEN /\ appointments' = Append(appointments, NewAppointment(req[p]))
              /\ slots' = [slots EXCEPT ![k] = TRUE]
              /\ snap' = [snap EXCEPT ![p] = [id |-> Len(appointments) + 1,
                                              doctorId |-> req[p].doctorId,
                                              date |-> req[p].date,
                                              time |-> req[p].time]]
              /\ pc' = [pc EXCEPT ![p] = "c_notify"]
              /\ UNCHANGED result
         ELSE /\ Finish(p, "NotFound")
              /\ UNCHANGED <<appointments, slots, snap>>
  /\ UNCHANGED <<now, dependents, req, serial, confirmation, listing, authVars, svcVars, limVars, userVars>>

CreateNotify_FailsUndelivered(p) ==
  \E smsSent \in BOOLEAN, emailSent \in BOOLEAN :
    /\ pc[p] = "c_notify"
    /\ confirmation' = [confirmation EXCEPT ![p] = [sms |-> smsSent, email |-> emailSent]]
    /\ Finish(p, IF smsSent /\ emailSent THEN "Created" ELSE "InternalError")
    /\ UNCHANGED <<now, slots, appointments, dependents, req, snap, serial, listing, authVars, svcVars, limVars, userVars>>

\* smsService.sendAppointmentConfirmation and
\* emailService.sendAppointmentConfirmationEmail, each of which resolves to
\* true or false or rejects; Promise.allSettled([sms, email]),
\* notification.create, res.status(201)
CreateNotify(p) ==
  \E smsSent \in BOOLEAN, emailSent \in BOOLEAN :
    /\ pc[p] = "c_notify"
    /\ confirmation' = [confirmation EXCEPT ![p] = [sms |-> smsSent, email |-> emailSent]]
    /\ Finish(p, "Created")
    /\ UNCHANGED <<now, slots, appointments, dependents, req, snap, serial, listing, authVars, svcVars, limVars, userVars>>

(***************************************************************************)
(* getAppointment                                                          *)
(***************************************************************************)
\* prisma.appointment.findFirst({id, userId}), whatever the status
FindOwn(id, userId) ==
  /\ id \in 1..Len(appointments)
  /\ appointments[id].userId = userId

\* getAppointment: the lookup and res.status(200), or 404
GetAppointment(p) ==
  \E u \in Users, id \in 1..MaxAppts :
    /\ Begin(p)
    /\ req' = [req EXCEPT ![p] =
                 [NoReq EXCEPT !.op = "get", !.userId = u, !.appointmentId = id]]
    /\ IF ~Authenticated(u)
         THEN Finish(p, "Unauthorized")
       ELSE IF ~FindOwn(id, u)
         THEN Finish(p, "NotFound")
       ELSE Finish(p, "OK")
    /\ UNCHANGED <<now, slots, appointments, dependents, snap, serial, confirmation, listing, authVars, svcVars, limVars, userVars>>

(***************************************************************************)
(* getAvailableSlots                                                       *)
(***************************************************************************)
\* the timeSlot column is a string 'HH:mm'; the hour as its two characters
TimeSlotString(t) == <<t \div 10, t % 10>>

\* the order of two timeSlot strings under orderBy: {timeSlot: 'asc'}
TimeSlotBefore(a, b) ==
  \/ TimeSlotString(a)[1] < TimeSlotString(b)[1]
  \/ /\ TimeSlotString(a)[1] = TimeSlotString(b)[1]
     /\ TimeSlotString(a)[2] < TimeSlotString(b)[2]

AvailableTimes_AnyFlag(doctorId, date) ==
  {t \in Times : Key(doctorId, date, t) \in DOMAIN slots}

\* doctorAvailability.findMany({where: {doctorId, date, isBooked: false}})
AvailableTimes(doctorId, date) ==
  {t \in Times : Key(doctorId, date, t) \in DOMAIN slots
                   /\ ~slots[Key(doctorId, date, t)]}

\* orderBy: {timeSlot: 'asc'} and availableSlots.map(slot => slot.timeSlot)
RECURSIVE OrderByTimeSlot(_)
OrderByTimeSlot(S) ==
  IF S = {} THEN <<>>
  ELSE LET first == CHOOSE t \in S : \A u \in S \ {t} : TimeSlotBefore(t, u)
       IN <<first>> \o OrderByTimeSlot(S \ {first})

\* getAvailableSlots: doctor.findFirst({id, unitId, isActive: true}) and the
\* test of the date, a day of the grid or the day before it, against today at
\* 00:00
SlotsStart(p) ==
  \E d \in DoctorIds, un \in UnitIds, dt \in {0} \cup Dates :
    /\ Begin(p)
    /\ req' = [req EXCEPT ![p] =
                 [NoReq EXCEPT !.op = "slots", !.doctorId = d, !.unitId = un,
                               !.date = dt]]
    /\ IF ~(Doctor[d].unitId = un /\ Doctor[d].isActive)
         THEN Finish(p, "NotFound")
       ELSE IF HoursPerDay * dt < HoursPerDay * (now \div HoursPerDay)
         THEN Finish(p, "BadRequest")
       ELSE pc' = [pc EXCEPT ![p] = "s_find"] /\ UNCHANGED result
    /\ UNCHANGED <<now, slots, appointments, dependents, snap, serial, confirmation, listing, authVars, svcVars, limVars, userVars>>

\* getAvailableSlots: doctorAvailability.findMany, workingHours.findUnique and
\* res.status(200) with the time slots
SlotsFind(p) ==
  /\ pc[p] = "s_find"
  /\ listing' = [listing EXCEPT ![p] =
                   OrderByTimeSlot(AvailableTimes(req[p].doctorId, req[p].date))]
  /\ Finish(p, "OK")
  /\ UNCHANGED <<now, slots, appointments, dependents, req, snap, serial, confirmation, authVars, svcVars, limVars, userVars>>

(***************************************************************************)
(* updateAppointment                                                       *)
(***************************************************************************)
\* const newDate = date ? new Date(date) : appointment.date
NewDate(r, s) == IF r.date # NoDate THEN r.date ELSE s.date
NewTime(r, s) == IF r.time # NoTime THEN r.time ELSE s.time

\* if (date || time)
IsReschedule(r) == r.date # NoDate \/ r.time # NoTime

\* date !== appointment.date.toISOString().split('T')[0] || time !== appointment.time
SlotChanged(r, s) == r.date # s.date \/ r.time # s.time

SnapOf(id) == [id |-> id, doctorId |-> appointments[id].doctorId,
               date |-> appointments[id].date, time |-> appointments[id].time]

\* appointment.findFirst({id, userId, status: SCHEDULED})
UpdateStartFrom(p, callers, bodies) ==
  \E u \in callers, id \in 1..MaxAppts, body \in bodies :
    /\ Begin(p)
    /\ LET dt == body[1]
           tm == body[2]
           nt == body[3]
           r == [NoReq EXCEPT !.op = "update", !.userId = u, !.appointmentId = id,
                              !.date = dt, !.time = tm, !.notes = nt] IN
       /\ req' = [req EXCEPT ![p] = r]
       /\ IF ~Authenticated(u)
         THEN Finish(p, "Unauthorized") /\ UNCHANGED snap
         ELSE IF ~FindOwnScheduled(id, u)
         THEN Finish(p, "NotFound") /\ UNCHANGED snap
         ELSE /\ snap' = [snap EXCEPT ![p] = SnapOf(id)]
              /\ UNCHANGED result
              /\ pc' = [pc EXCEPT ![p] =
                          IF IsReschedule(r) /\ SlotChanged(r, SnapOf(id))
                            THEN "u_existing" ELSE "u_tx"]
    /\ UNCHANGED <<now, slots, appointments, dependents, serial, confirmation, listing, authVars, svcVars, limVars, userVars>>

UpdateStart(p) == UpdateStartFrom(p, Users, UpdateBodies)

\* appointment.findFirst: another SCHEDULED appointment at the new slot
UpdateCheckExisting(p) ==
  /\ pc[p] = "u_existing"
  /\ IF ExistingScheduled(snap[p].doctorId, NewDate(req[p], snap[p]),
                          NewTime(req[p], snap[p]), snap[p].id)
       THEN Finish(p, "ConflictAppointment")
       ELSE pc' = [pc EXCEPT ![p] = "u_avail"] /\ UNCHANGED result
  /\ UNCHANGED <<now, slots, appointments, dependents, req, snap, serial, confirmation, listing, authVars, svcVars, limVars, userVars>>

\* updateAppointment without the availability check of the new slot
UpdateCheckAvailability_NoCheck(p) ==
  /\ pc[p] = "u_avail"
  /\ pc' = [pc EXCEPT ![p] = "u_tx"]
  /\ UNCHANGED <<now, slots, appointments, dependents, req, snap, result, serial, confirmation, listing, authVars, svcVars, limVars, userVars>>

\* doctorAvailability.findUnique for the new slot
UpdateCheckAvailability(p) ==
  /\ pc[p] = "u_avail"
  /\ IF SlotUnavailable(snap[p].doctorId, NewDate(req[p], snap[p]),
                        NewTime(req[p], snap[p]))
       THEN Finish(p, "ConflictAgenda")
       ELSE pc' = [pc EXCEPT ![p] = "u_tx"] /\ UNCHANGED result
  /\ UNCHANGED <<now, slots, appointments, dependents, req, snap, serial, confirmation, listing, authVars, svcVars, limVars, userVars>>

\* the slot writes of the update transaction: free the old slot, book the new one
RescheduleSlots(s, r, sn) ==
  UpdateManySlots(UpdateManySlots(s, Key(sn.doctorId, sn.date, sn.time), FALSE),
                  Key(sn.doctorId, NewDate(r, sn), NewTime(r, sn)), TRUE)

\* tx.appointment.update({...(date && {date}), ...(time && {time}), ...(notes !== undefined && {notes})})
UpdatedAppointment(a, r) ==
  [a EXCEPT !.date = IF r.date # NoDate THEN r.date ELSE @,
            !.time = IF r.time # NoTime THEN r.time ELSE @,
            !.notes = IF r.notes # NoNotes THEN r.notes ELSE @]

\* prisma.$transaction of updateAppointment, then the notifications and res.status(200)
UpdateTransaction(p) ==
  /\ pc[p] = "u_tx"
  /\ slots' = IF IsReschedule(req[p]) THEN RescheduleSlots(slots, req[p], snap[p])
              ELSE slots
  /\ appointments' = [appointments EXCEPT ![snap[p].id] = UpdatedAppointment(@, req[p])]
  /\ Finish(p, "OK")
  /\ UNCHANGED <<now, dependents, req, snap, serial, confirmation, listing, authVars, svcVars, limVars, userVars>>

(***************************************************************************)
(* cancelAppointment                                                       *)
(***************************************************************************)
\* (appointmentDateTime.getTime() - now.getTime()) / (1000 * 60 * 60)
HoursUntilAppointment(date, time) == DateTimeHours(date, time) - now

\* appointment.findFirst({id, userId, status: SCHEDULED}) and the 24 hour check
CancelStartFrom(p, callers) ==
  \E u \in callers, id \in 1..MaxAppts :
    /\ Begin(p)
    /\ req' = [req EXCEPT ![p] =
                 [NoReq EXCEPT !.op = "cancel", !.userId = u, !.appointmentId = id]]
    /\ IF ~Authenticated(u)
         THEN Finish(p, "Unauthorized") /\ UNCHANGED snap
       ELSE IF ~FindOwnScheduled(id, u)
         THEN Finish(p, "NotFound") /\ UNCHANGED snap
       ELSE IF HoursUntilAppointment(appointments[id].date, appointments[id].time)
                 < CancelLeadHours
         THEN Finish(p, "CancellationWindowClosed") /\ UNCHANGED snap
       ELSE /\ snap' = [snap EXCEPT ![p] = SnapOf(id)]
            /\ UNCHANGED result
            /\ pc' = [pc EXCEPT ![p] = "x_tx"]
    /\ UNCHANGED <<now, slots, appointments, dependents, serial, confirmation, listing, authVars, svcVars, limVars, userVars>>

CancelStart(p) == CancelStartFrom(p, Users)

\* cancelAppointment that sets CANCELLED and leaves the slot booked
CancelTransaction_KeepsSlot(p) ==
  /\ pc[p] = "x_tx"
  /\ appointments' = [appointments EXCEPT ![snap[p].id].status = "CANCELLED"]
  /\ Finish(p, "NoContent")
  /\ UNCHANGED <<now, slots, dependents, req, snap, serial, confirmation, listing, authVars, svcVars, limVars, userVars>>

\* prisma.$transaction of cancelAppointment, then the notifications and res.status(204)
CancelTransaction(p) ==
  /\ pc[p] = "x_tx"
  /\ appointments' = [appointments EXCEPT ![snap[p].id].status = "CANCELLED"]
  /\ slots' = UpdateManySlots(slots, Key(snap[p].doctorId, snap[p].date, snap[p].time),
                              FALSE)
  /\ Finish(p, "NoContent")
  /\ UNCHANGED <<now, dependents, req, snap, serial, confirmation, listing, authVars, svcVars, limVars, userVars>>

(***************************************************************************)
(* removeDependent                                                         *)
(***************************************************************************)
\* prisma.appointment.count({dependentId, status: SCHEDULED, date: {gte: new Date()}}):
\* the date column holds the day of the appointment at 00:00
UpcomingAppointments(dependentId) ==
  Cardinality({i \in 1..Len(appointments) :
                 /\ appointments[i].dependentId = dependentId
                 /\ appointments[i].status = "SCHEDULED"
                 /\ HoursPerDay * appointments[i].date >= now})

\* dependent.findFirst({id: dependentId, userId, isActive: true})
RemoveStart(p) ==
  \E u \in Users, dep \in DepIds :
    /\ Begin(p)
    /\ req' = [req EXCEPT ![p] =
                 [NoReq EXCEPT !.op = "removeDependent", !.userId = u,
                               !.dependentId = dep]]
    /\ IF dependents[dep].userId = u /\ dependents[dep].isActive
         THEN pc' = [pc EXCEPT ![p] = "rd_count"] /\ UNCHANGED result
         ELSE Finish(p, "NotFound")
    /\ UNCHANGED <<now, slots, appointments, dependents, snap, serial, confirmation, listing, authVars, svcVars, limVars, userVars>>

\* appointment.count of the upcoming appointments: upcomingAppointments > 0
RemoveCount(p) ==
  /\ pc[p] = "rd_count"
  /\ IF UpcomingAppointments(req[p].dependentId) > 0
       THEN Finish(p, "BadRequest")
       ELSE pc' = [pc EXCEPT ![p] = "rd_update"] /\ UNCHANGED result
  /\ UNCHANGED <<now, slots, appointments, dependents, req, snap, serial, confirmation, listing, authVars, svcVars, limVars, userVars>>

\* dependent.update({where: {id: dependentId}, data: {isActive: false}}) and
\* res.status(204)
RemoveUpdate(p) ==
  /\ pc[p] = "rd_update"
  /\ dependents' = [dependents EXCEPT ![req[p].dependentId].isActive = FALSE]
  /\ Finish(p, "NoContent")
  /\ UNCHANGED <<now, slots, appointments, req, snap, serial, confirmation, listing, authVars, svcVars, limVars, userVars>>

(***************************************************************************)
(* The clock                                                               *)
(***************************************************************************)
Tick ==
  /\ \A q \in Procs : pc[q] # "done"
  /\ now + TickHours <= StartHour + MaxTicks * TickHours
  /\ now' = now + TickHours
  /\ UNCHANGED <<slots, appointments, dependents, pc, req, snap, result, serial, confirmation, listing, authVars, svcVars, limVars, userVars>>

\* res.status(...).json(...): the response leaves and the handler is free again
Respond(p) ==
  /\ pc[p] = "done"
  /\ pc' = [pc EXCEPT ![p] = "idle"]
  /\ req' = [req EXCEPT ![p] = NoReq]
  /\ snap' = [snap EXCEPT ![p] = NoSnap]
  /\ result' = [result EXCEPT ![p] = "none"]
  /\ confirmation' = [confirmation EXCEPT ![p] = NoConfirmation]
  /\ listing' = [listing EXCEPT ![p] = <<>>]
  /\ UNCHANGED <<now, slots, appointments, dependents, serial, authVars, svcVars, limVars, userVars>>

(***************************************************************************)
(* Authentication controller: login, verify2FA, refreshToken, and          *)
(* changePassword of the user controller. Time is in minutes (`clock`).    *)
(***************************************************************************)
Cpfs == Users \cup {"nobody"}
Passwords == {"pw1", "pw2"}
Codes == {"c1", "c2"}
OtpMinutes == 5
RefreshMinutes == 10080
TickMinutes == 5
ResetMinutes == 15
ResendWindowMinutes == 10
ResendMaxSessions == 3
ResendLimit == 3
NoUser == "undefined"

NoToken == [sid |-> 0, userId |-> "nobody", iat |-> 0]

NoAuthReq == [op |-> "none", cpf |-> "nobody", password |-> "pw1",
              newPassword |-> "pw1", sid |-> 0, code |-> "c1",
              token |-> NoToken, prior |-> 0]

NoAuthRes == [status |-> "none", refreshToken |-> NoToken, sid |-> 0,
              expiresIn |-> 0, notificationSent |-> TRUE]

\* jwt.sign({userId, sessionId}, JWT_REFRESH_SECRET, {expiresIn: '7d'}): the
\* token is a function of its payload and of the time it is signed at
generateRefreshToken(userId, sid, t) == [sid |-> sid, userId |-> userId, iat |-> t]

\* jwt.verify: the signature is one of this server and the token is not past
\* its `exp`
verifyRefreshToken(tok, t) == tok # NoToken /\ t < tok.iat + RefreshMinutes

\* the same lookup without isVerified: false
FindPendingSession_AnyState(sid) ==
  {s \in sessions : s.id = sid /\ s.expiresAt >= clock}

\* prisma.authSession.findUnique({sessionId, isVerified: false, expiresAt: {gte: now}})
FindPendingSession(sid) ==
  {s \in sessions : s.id = sid /\ ~s.isVerified /\ s.expiresAt >= clock}

\* prisma.authSession.findUnique({refreshToken, isVerified: true, expiresAt: {gte: now}})
FindRefreshSession(tok) ==
  {s \in sessions : s.refreshToken = tok /\ s.isVerified /\ s.expiresAt >= clock}

AInFlight(p) == apc[p] \notin {"idle", "done"}

AFinish(p, st, tok) ==
  /\ apc' = [apc EXCEPT ![p] = "done"]
  /\ ares' = [ares EXCEPT ![p] =
                [NoAuthRes EXCEPT !.status = st, !.refreshToken = tok]]

ABegin(p) ==
  /\ apc[p] = "idle"
  /\ \A q \in Procs : apc[q] # "done"
  /\ \A q \in Procs : q < p => apc[q] # "idle"
  /\ serial => \A q \in Procs : apc[q] = "idle"

RateLimitByUser_OneMore(userId, maxRequests, windowMinutes) ==
  IF userId = NoUser
    THEN [pass |-> TRUE, requests |-> userRequests]
    ELSE IF userRequests[userId].count = 0 \/ clock > userRequests[userId].resetTime
      THEN [pass |-> TRUE,
            requests |-> [userRequests EXCEPT ![userId] =
                            [count |-> 1, resetTime |-> clock + windowMinutes]]]
      ELSE IF userRequests[userId].count > maxRequests
        THEN [pass |-> FALSE, requests |-> userRequests]
        ELSE [pass |-> TRUE,
              requests |-> [userRequests EXCEPT ![userId].count = @ + 1]]

\* rateLimitByUser(maxRequests, windowMs): a request without req.user passes;
\* a user's first request, or one after resetTime, opens a window with count 1;
\* a request at count >= maxRequests is answered 429; any other is counted
RateLimitByUser(userId, maxRequests, windowMinutes) ==
  IF userId = NoUser
    THEN [pass |-> TRUE, requests |-> userRequests]
    ELSE IF userRequests[userId].count = 0 \/ clock > userRequests[userId].resetTime
      THEN [pass |-> TRUE,
            requests |-> [userRequests EXCEPT ![userId] =
                            [count |-> 1, resetTime |-> clock + windowMinutes]]]
      ELSE IF userRequests[userId].count >= maxRequests
        THEN [pass |-> FALSE, requests |-> userRequests]
        ELSE [pass |-> TRUE,
              requests |-> [userRequests EXCEPT ![userId].count = @ + 1]]

\* rateLimitByUser(3, 60 * 60 * 1000), the instance of POST /user/change-password
ChangePasswordLimit == 3
ChangePasswordWindowMinutes == 60

\* one request through the instance of rateLimitByUser, of a user or of
\* nobody authenticated: next() or status 429; calls keeps who asked, when,
\* and the answer
LimitedRequest ==
  \E u \in Users \cup {NoUser} :
    LET lim == RateLimitByUser(u, ChangePasswordLimit, ChangePasswordWindowMinutes) IN
    /\ Len(calls) < MaxCalls
    /\ userRequests' = lim.requests
    /\ calls' = Append(calls, [user |-> u, at |-> clock,
                               status |-> IF lim.pass THEN "next" ELSE "429"])
    /\ UNCHANGED <<resendAttempts, apptVars, authVars, svcVars, userVars>>

\* every user of the model starts as an account that can log in: isActive is true
InitUsers == active = [u \in Users |-> TRUE]

InitLimiter ==
  /\ userRequests = [u \in Users |-> [count |-> 0, resetTime |-> 0]]
  /\ resendAttempts = [u \in Users |-> 0]
  /\ calls = <<>>

InitAuth ==
  /\ sessions = {}
  /\ nSessions = 0
  /\ password = [u \in Users |-> "pw1"]
  /\ clock = 0
  /\ issued = {}
  /\ revoked = {}
  /\ apc = [p \in Procs |-> "idle"]
  /\ areq = [p \in Procs |-> NoAuthReq]
  /\ ares = [p \in Procs |-> NoAuthRes]

\* login: user.findUnique({cpf, isActive: true}) and comparePassword
LoginStart(p) ==
  \E c \in Cpfs, pw \in Passwords :
    /\ ABegin(p)
    /\ nSessions + Cardinality({q \in Procs : apc[q] \in {"l_create", "fp_create"}})
         < MaxSessions
    /\ areq' = [areq EXCEPT ![p] =
                  [NoAuthReq EXCEPT !.op = "login", !.cpf = c, !.password = pw]]
    /\ IF c \notin Users \/ ~active[c] \/ password[c] # pw
         THEN AFinish(p, "Unauthorized", NoToken)
         ELSE /\ apc' = [apc EXCEPT ![p] = "l_create"]
              /\ UNCHANGED ares
    /\ UNCHANGED <<sessions, nSessions, password, clock, issued, revoked, apptVars, svcVars, limVars, userVars>>

\* login: generate2FACode, generateSessionId, authSession.create
LoginCreate(p) ==
  \E code \in Codes :
    /\ apc[p] = "l_create"
    /\ nSessions' = nSessions + 1
    /\ sessions' = sessions \cup
         {[id |-> nSessions + 1, userId |-> areq[p].cpf, code |-> code,
           expiresAt |-> clock + OtpMinutes, isVerified |-> FALSE,
           refreshToken |-> NoToken, createdAt |-> clock, purpose |-> "login"]}
    /\ areq' = [areq EXCEPT ![p].sid = nSessions + 1]
    /\ apc' = [apc EXCEPT ![p] = "l_notify"]
    /\ UNCHANGED <<password, clock, issued, revoked, ares, apptVars, svcVars, limVars, userVars>>

LoginNotify_FailsUndelivered(p) ==
  \E delivered \in BOOLEAN :
  /\ apc[p] = "l_notify"
  /\ apc' = [apc EXCEPT ![p] = "done"]
  /\ ares' = [ares EXCEPT ![p] =
                IF delivered
                  THEN [NoAuthRes EXCEPT !.status = "TwoFactorRequired",
                                         !.sid = areq[p].sid, !.expiresIn = 300]
                  ELSE [NoAuthRes EXCEPT !.status = "InternalError",
                                         !.notificationSent = FALSE]]
  /\ UNCHANGED <<sessions, nSessions, password, clock, issued, revoked, areq, apptVars, svcVars, limVars, userVars>>

\* login: notificationService.send2FACode, whose failure is only logged, and
\* res.status(200) with the sessionId
LoginNotify(p) ==
  \E delivered \in BOOLEAN :
  /\ apc[p] = "l_notify"
  /\ apc' = [apc EXCEPT ![p] = "done"]
  /\ ares' = [ares EXCEPT ![p] =
                [NoAuthRes EXCEPT !.status = "TwoFactorRequired",
                                  !.sid = areq[p].sid, !.expiresIn = 300,
                                  !.notificationSent = delivered]]
  /\ UNCHANGED <<sessions, nSessions, password, clock, issued, revoked, areq, apptVars, svcVars, limVars, userVars>>

VerifyStart_SpendsSession(p) ==
  \E sid \in 1..MaxSessions, code \in Codes :
    /\ ABegin(p)
    /\ LET found == FindPendingSession(sid) IN
       IF found = {}
         THEN /\ areq' = [areq EXCEPT ![p] =
                            [NoAuthReq EXCEPT !.op = "verify", !.sid = sid,
                                              !.code = code]]
              /\ AFinish(p, "InvalidSession", NoToken)
              /\ UNCHANGED sessions
       ELSE LET s == CHOOSE x \in found : TRUE IN
         IF s.code # code
           THEN /\ areq' = [areq EXCEPT ![p] =
                              [NoAuthReq EXCEPT !.op = "verify", !.sid = sid,
                                                !.code = code]]
                /\ AFinish(p, "WrongCode", NoToken)
                /\ sessions' = sessions \ {s}
           ELSE /\ areq' = [areq EXCEPT ![p] =
                              [NoAuthReq EXCEPT
                                 !.op = "verify", !.sid = sid, !.code = code,
                                 !.cpf = s.userId,
                                 !.token = generateRefreshToken(s.userId, s.id, clock)]]
                /\ apc' = [apc EXCEPT ![p] = "v_update"]
                /\ UNCHANGED <<ares, sessions>>
    /\ UNCHANGED <<nSessions, password, clock, issued, revoked, apptVars, svcVars, limVars, userVars>>

\* verify2FA: authSession.findUnique, the comparison of the code and the
\* generation of the tokens
VerifyStart(p) ==
  \E sid \in 1..MaxSessions, code \in Codes :
    /\ ABegin(p)
    /\ LET found == FindPendingSession(sid) IN
       IF found = {}
         THEN /\ areq' = [areq EXCEPT ![p] =
                            [NoAuthReq EXCEPT !.op = "verify", !.sid = sid,
                                              !.code = code]]
              /\ AFinish(p, "InvalidSession", NoToken)
       ELSE LET s == CHOOSE x \in found : TRUE IN
         IF s.code # code
           THEN /\ areq' = [areq EXCEPT ![p] =
                              [NoAuthReq EXCEPT !.op = "verify", !.sid = sid,
                                                !.code = code]]
                /\ AFinish(p, "WrongCode", NoToken)
           ELSE /\ areq' = [areq EXCEPT ![p] =
                              [NoAuthReq EXCEPT
                                 !.op = "verify", !.sid = sid, !.code = code,
                                 !.cpf = s.userId,
                                 !.token = generateRefreshToken(s.userId, s.id, clock)]]
                /\ apc' = [apc EXCEPT ![p] = "v_update"]
                /\ UNCHANGED ares
    /\ UNCHANGED <<sessions, nSessions, password, clock, issued, revoked, apptVars, svcVars, limVars, userVars>>

\* verify2FA: authSession.update({where: {id}}), which throws when the record
\* is gone, and res.status(200) with the token pair
VerifyUpdate(p) ==
  /\ apc[p] = "v_update"
  /\ IF \E s \in sessions : s.id = areq[p].sid
       THEN /\ sessions' =
                 {IF s.id = areq[p].sid
                    THEN [s EXCEPT !.refreshToken = areq[p].token,
                                   !.isVerified = TRUE,
                                   !.expiresAt = clock + RefreshMinutes]
                    ELSE s : s \in sessions}
            /\ issued' = issued \cup {areq[p].token}
            /\ AFinish(p, "Tokens", areq[p].token)
       ELSE /\ AFinish(p, "NotFound", NoToken)
            /\ UNCHANGED <<sessions, issued>>
  /\ UNCHANGED <<nSessions, password, clock, revoked, areq, apptVars, svcVars, limVars, userVars>>

\* refreshToken: verifyRefreshToken, authSession.findUnique, generateToken and
\* res.status(200) with the new access token alone
RefreshToken(p) ==
  \E tok \in issued \cup {NoToken} :
    /\ ABegin(p)
    /\ areq' = [areq EXCEPT ![p] =
                  [NoAuthReq EXCEPT !.op = "refresh", !.token = tok]]
    /\ IF ~verifyRefreshToken(tok, clock)
         THEN AFinish(p, "InternalError", NoToken)
       ELSE IF FindRefreshSession(tok) = {}
         THEN AFinish(p, "Unauthorized", NoToken)
       ELSE AFinish(p, "AccessToken", NoToken)
    /\ UNCHANGED <<sessions, nSessions, password, clock, issued, revoked, apptVars, svcVars, limVars, userVars>>

\* changePassword, behind authenticateToken: user.findUnique and
\* comparePassword(currentPassword, user.password)
ChangePasswordStart(p) ==
  \E u \in Users, cur \in Passwords, new \in Passwords :
    /\ ABegin(p)
    /\ \E t \in issued : t.userId = u
    /\ areq' = [areq EXCEPT ![p] =
                  [NoAuthReq EXCEPT !.op = "changePassword", !.cpf = u,
                                    !.password = cur, !.newPassword = new]]
    /\ IF password[u] # cur
         THEN AFinish(p, "BadRequest", NoToken)
         ELSE /\ apc' = [apc EXCEPT ![p] = "p_update"]
              /\ UNCHANGED ares
    /\ UNCHANGED <<sessions, nSessions, password, clock, issued, revoked, apptVars, svcVars, limVars, userVars>>

\* changePassword: hashPassword and user.update({password})
ChangePasswordUpdate(p) ==
  /\ apc[p] = "p_update"
  /\ password' = [password EXCEPT ![areq[p].cpf] = areq[p].newPassword]
  /\ apc' = [apc EXCEPT ![p] = "p_delete"]
  /\ UNCHANGED <<sessions, nSessions, clock, issued, revoked, areq, ares, apptVars, svcVars, limVars, userVars>>

\* the same step without the deleteMany
ChangePasswordDelete_KeepsSessions(p) ==
  /\ apc[p] = "p_delete"
  /\ revoked' = revoked \cup {t \in issued : t.userId = areq[p].cpf}
  /\ AFinish(p, "OK", NoToken)
  /\ UNCHANGED <<sessions, nSessions, password, clock, issued, areq, apptVars, svcVars, limVars, userVars>>

\* changePassword: authSession.deleteMany({where: {userId}}) and
\* res.status(200); the refresh tokens handed out to the user so far are the
\* ones of before the change
ChangePasswordDelete(p) ==
  /\ apc[p] = "p_delete"
  /\ sessions' = {s \in sessions : s.userId # areq[p].cpf}
  /\ revoked' = revoked \cup {t \in issued : t.userId = areq[p].cpf}
  /\ AFinish(p, "OK", NoToken)
  /\ UNCHANGED <<nSessions, password, clock, issued, areq, apptVars, svcVars, limVars, userVars>>

\* logout, behind authenticateToken: authSession.deleteMany({userId,
\* isVerified: true}) and res.status(200)
Logout(p) ==
  \E u \in Users :
    /\ ABegin(p)
    /\ \E t \in issued : t.userId = u
    /\ areq' = [areq EXCEPT ![p] = [NoAuthReq EXCEPT !.op = "logout", !.cpf = u]]
    /\ sessions' = {s \in sessions : ~(s.userId = u /\ s.isVerified)}
    /\ AFinish(p, "OK", NoToken)
    /\ UNCHANGED <<nSessions, password, clock, issued, revoked, apptVars, svcVars, limVars, userVars>>

\* prisma.authSession.findUnique({sessionId, isVerified: false}) of resend2FA
FindUnverifiedSession(sid) == {s \in sessions : s.id = sid /\ ~s.isVerified}

\* prisma.authSession.count({userId, createdAt: {gte: now - 10 minutes}})
RecentSessions(userId) ==
  Cardinality({s \in sessions : s.userId = userId
                                 /\ s.createdAt >= clock - ResendWindowMinutes})

\* resend2FA: authSession.findUnique
ResendStart(p) ==
  \E sid \in 1..MaxSessions :
    LET \* POST /resend-2fa carries no authenticateToken: req.user is undefined
        lim == RateLimitByUser(NoUser, ResendLimit, ResendWindowMinutes)
        found == FindUnverifiedSession(sid)
        owner == (CHOOSE s \in found : TRUE).userId
    IN
    /\ ABegin(p)
    /\ userRequests' = lim.requests
    /\ IF ~lim.pass
         THEN /\ areq' = [areq EXCEPT ![p] =
                            [NoAuthReq EXCEPT !.op = "resend", !.sid = sid]]
              /\ AFinish(p, "RateLimited", NoToken)
              /\ UNCHANGED resendAttempts
         ELSE IF found = {}
           THEN /\ areq' = [areq EXCEPT ![p] =
                              [NoAuthReq EXCEPT !.op = "resend", !.sid = sid]]
                /\ AFinish(p, "SessionNotFound", NoToken)
                /\ UNCHANGED resendAttempts
           ELSE /\ areq' = [areq EXCEPT ![p] =
                              [NoAuthReq EXCEPT
                                 !.op = "resend", !.sid = sid, !.cpf = owner,
                                 !.prior = resendAttempts[owner]]]
                /\ resendAttempts' =
                     [resendAttempts EXCEPT ![owner] =
                        IF @ < ResendLimit THEN @ + 1 ELSE @]
                /\ apc' = [apc EXCEPT ![p] = "rs_count"]
                /\ UNCHANGED ares
    /\ UNCHANGED <<sessions, nSessions, password, clock, issued, revoked, calls, apptVars,
                   svcVars, userVars>>

\* resend2FA: authSession.count of the user's recent sessions, recentSessions > 3
ResendCount(p) ==
  /\ apc[p] = "rs_count"
  /\ IF RecentSessions(areq[p].cpf) > ResendMaxSessions
       THEN AFinish(p, "TooManyRequests", NoToken)
       ELSE /\ apc' = [apc EXCEPT ![p] = "rs_update"]
            /\ UNCHANGED ares
  /\ UNCHANGED <<sessions, nSessions, password, clock, issued, revoked, areq, apptVars, svcVars, limVars, userVars>>

\* resend2FA: generate2FACode and authSession.update({where: {id}, data:
\* {twoFactorCode, expiresAt: now + 5 minutes}}), which throws when the record
\* is gone
ResendUpdate(p) ==
  \E code \in Codes :
    /\ apc[p] = "rs_update"
    /\ IF \E s \in sessions : s.id = areq[p].sid
         THEN /\ sessions' =
                   {IF s.id = areq[p].sid
                      THEN [s EXCEPT !.code = code,
                                     !.expiresAt = clock + OtpMinutes]
                      ELSE s : s \in sessions}
              /\ areq' = [areq EXCEPT ![p].code = code]
              /\ apc' = [apc EXCEPT ![p] = "rs_send"]
              /\ UNCHANGED ares
         ELSE /\ AFinish(p, "NotFound", NoToken)
              /\ UNCHANGED <<sessions, areq>>
    /\ UNCHANGED <<nSessions, password, clock, issued, revoked, apptVars, svcVars, limVars, userVars>>

\* resend2FA: smsService.send2FACode, a name authController.ts does not
\* import: the SMS is sent and the answer is 200, or the call fails or
\* returns false and the answer is 500
ResendSend(p) ==
  \E smsSent \in BOOLEAN :
    /\ apc[p] = "rs_send"
    /\ AFinish(p, IF smsSent THEN "Resent" ELSE "InternalError", NoToken)
    /\ UNCHANGED <<sessions, nSessions, password, clock, issued, revoked, areq, apptVars, svcVars, limVars, userVars>>

\* forgotPassword: user.findUnique({cpf, isActive: true}); the answer for an
\* unknown CPF is the 200 of a known one, without the sessionId
ForgotStart(p) ==
  \E c \in Cpfs :
    /\ ABegin(p)
    /\ nSessions + Cardinality({q \in Procs : apc[q] \in {"l_create", "fp_create"}})
         < MaxSessions
    /\ areq' = [areq EXCEPT ![p] = [NoAuthReq EXCEPT !.op = "forgot", !.cpf = c]]
    /\ IF c \notin Users
         THEN AFinish(p, "ResetRequested", NoToken)
         ELSE /\ apc' = [apc EXCEPT ![p] = "fp_create"]
              /\ UNCHANGED ares
    /\ UNCHANGED <<sessions, nSessions, password, clock, issued, revoked, apptVars, svcVars, limVars, userVars>>

\* forgotPassword: generate2FACode, generateSessionId, authSession.create with
\* expiresAt 15 minutes from now
ForgotCreate(p) ==
  \E code \in Codes :
    /\ apc[p] = "fp_create"
    /\ nSessions' = nSessions + 1
    /\ sessions' = sessions \cup
         {[id |-> nSessions + 1, userId |-> areq[p].cpf, code |-> code,
           expiresAt |-> clock + ResetMinutes, isVerified |-> FALSE,
           refreshToken |-> NoToken, createdAt |-> clock, purpose |-> "reset"]}
    /\ areq' = [areq EXCEPT ![p].sid = nSessions + 1]
    /\ apc' = [apc EXCEPT ![p] = "fp_send"]
    /\ UNCHANGED <<password, clock, issued, revoked, ares, apptVars, svcVars, limVars, userVars>>

\* forgotPassword: smsService.send2FACode, whose result is not looked at, and
\* res.status(200) with the sessionId; the call can fail (the name is not
\* imported by authController.ts), and the answer is then 500
ForgotSend(p) ==
  \E thrown \in BOOLEAN :
    /\ apc[p] = "fp_send"
    /\ IF thrown
         THEN AFinish(p, "InternalError", NoToken)
         ELSE /\ apc' = [apc EXCEPT ![p] = "done"]
              /\ ares' = [ares EXCEPT ![p] =
                            [NoAuthRes EXCEPT !.status = "ResetRequested",
                                              !.sid = areq[p].sid]]
    /\ UNCHANGED <<sessions, nSessions, password, clock, issued, revoked, areq, apptVars, svcVars, limVars, userVars>>

\* resetPassword: authSession.findUnique({sessionId, isVerified: false,
\* expiresAt: {gte: now}}) and the comparison of the code
ResetStart(p) ==
  \E sid \in 1..MaxSessions, code \in Codes, new \in Passwords :
    LET found == FindPendingSession(sid) IN
    /\ ABegin(p)
    /\ areq' = [areq EXCEPT ![p] =
                  [NoAuthReq EXCEPT
                     !.op = "reset", !.sid = sid, !.code = code,
                     !.newPassword = new,
                     !.cpf = IF found = {} THEN "nobody"
                             ELSE (CHOOSE s \in found : TRUE).userId]]
    /\ IF found = {}
         THEN AFinish(p, "InvalidSession", NoToken)
       ELSE IF (CHOOSE s \in found : TRUE).code # code
         THEN AFinish(p, "WrongCode", NoToken)
       ELSE /\ apc' = [apc EXCEPT ![p] = "rp_update"]
            /\ UNCHANGED ares
    /\ UNCHANGED <<sessions, nSessions, password, clock, issued, revoked, apptVars, svcVars, limVars, userVars>>

\* resetPassword: hashPassword and user.update({where: {id: session.userId},
\* data: {password}})
ResetUpdate(p) ==
  /\ apc[p] = "rp_update"
  /\ password' = [password EXCEPT ![areq[p].cpf] = areq[p].newPassword]
  /\ apc' = [apc EXCEPT ![p] = "rp_mark"]
  /\ UNCHANGED <<sessions, nSessions, clock, issued, revoked, areq, ares, apptVars, svcVars, limVars, userVars>>

ResetMark_LeavesUnused(p) ==
  /\ apc[p] = "rp_mark"
  /\ IF \E s \in sessions : s.id = areq[p].sid
       THEN /\ apc' = [apc EXCEPT ![p] = "rp_delete"]
            /\ UNCHANGED <<ares, sessions>>
       ELSE /\ AFinish(p, "NotFound", NoToken)
            /\ UNCHANGED sessions
  /\ UNCHANGED <<nSessions, password, clock, issued, revoked, areq, apptVars, svcVars, limVars, userVars>>

\* resetPassword: authSession.update({where: {id}, data: {isVerified: true}}),
\* which throws when the record is gone
ResetMark(p) ==
  /\ apc[p] = "rp_mark"
  /\ IF \E s \in sessions : s.id = areq[p].sid
       THEN /\ sessions' = {IF s.id = areq[p].sid
                              THEN [s EXCEPT !.isVerified = TRUE] ELSE s
                              : s \in sessions}
            /\ apc' = [apc EXCEPT ![p] = "rp_delete"]
            /\ UNCHANGED ares
       ELSE /\ AFinish(p, "NotFound", NoToken)
            /\ UNCHANGED sessions
  /\ UNCHANGED <<nSessions, password, clock, issued, revoked, areq, apptVars, svcVars, limVars, userVars>>

\* resetPassword: authSession.deleteMany({userId, id: {not: session.id}}) and
\* res.status(200)
ResetDelete(p) ==
  /\ apc[p] = "rp_delete"
  /\ sessions' = {s \in sessions : s.userId # areq[p].cpf \/ s.id = areq[p].sid}
  /\ AFinish(p, "PasswordReset", NoToken)
  /\ UNCHANGED <<nSessions, password, clock, issued, revoked, areq, apptVars, svcVars, limVars, userVars>>

\* deleteAccount behind authenticateToken: the bearer of an access token of
\* an inactive user is answered 401
DeleteAccountAuth(p) ==
  \E u \in Users, pw \in Passwords :
    /\ ABegin(p)
    /\ areq' = [areq EXCEPT ![p] =
                  [NoAuthReq EXCEPT !.op = "deleteAccount", !.cpf = u, !.password = pw]]
    /\ IF ~Authenticated(u)
         THEN AFinish(p, "Unauthorized", NoToken)
         ELSE apc' = [apc EXCEPT ![p] = "da_find"] /\ UNCHANGED ares
    /\ UNCHANGED <<sessions, nSessions, password, clock, issued, revoked, apptVars, svcVars, limVars, userVars>>

\* deleteAccount: user.findUnique({id}) and comparePassword
DeleteAccountFind(p) ==
  /\ apc[p] = "da_find"
  /\ IF password[areq[p].cpf] # areq[p].password
       THEN AFinish(p, "WrongPassword", NoToken)
       ELSE apc' = [apc EXCEPT ![p] = "da_count"] /\ UNCHANGED ares
  /\ UNCHANGED <<sessions, nSessions, password, clock, issued, revoked, areq, apptVars, svcVars, limVars, userVars>>

\* prisma.appointment.count({userId, status: SCHEDULED, date: {gte: new Date()}}):
\* the date column holds the day of the appointment at 00:00
UpcomingAppointmentsOfUser(userId) ==
  Cardinality({i \in 1..Len(appointments) :
                 /\ appointments[i].userId = userId
                 /\ appointments[i].status = "SCHEDULED"
                 /\ HoursPerDay * appointments[i].date >= now})

\* deleteAccount: upcomingAppointments > 0
DeleteAccountCount(p) ==
  /\ apc[p] = "da_count"
  /\ IF UpcomingAppointmentsOfUser(areq[p].cpf) > 0
       THEN AFinish(p, "HasAppointments", NoToken)
       ELSE apc' = [apc EXCEPT ![p] = "da_tx"] /\ UNCHANGED ares
  /\ UNCHANGED <<sessions, nSessions, password, clock, issued, revoked, areq, apptVars, svcVars, limVars, userVars>>

\* deleteAccount: prisma.$transaction([dependent.updateMany, user.update,
\* authSession.deleteMany]) and res.status(200)
DeleteAccountTransaction(p) ==
  /\ apc[p] = "da_tx"
  /\ dependents' = [d \in DOMAIN dependents |->
                      IF dependents[d].userId = areq[p].cpf
                        THEN [dependents[d] EXCEPT !.isActive = FALSE]
                        ELSE dependents[d]]
  /\ active' = [active EXCEPT ![areq[p].cpf] = FALSE]
  /\ sessions' = {s \in sessions : s.userId # areq[p].cpf}
  /\ AFinish(p, "OK", NoToken)
  /\ UNCHANGED <<nSessions, password, clock, issued, revoked, areq, now, slots,
                 appointments, pc, req, snap, result, serial, confirmation, listing, svcVars,
                 limVars>>

\* the clock of the authentication controller: a few minutes pass, or the
\* seven days of a refresh token
AuthTick ==
  \E d \in {TickMinutes, RefreshMinutes} :
    /\ \A q \in Procs : apc[q] # "done"
    /\ (clock + d) % RefreshMinutes <= MaxAuthTicks * TickMinutes
    /\ clock + d <= RefreshMinutes + MaxAuthTicks * TickMinutes
    /\ clock' = clock + d
    /\ resendAttempts' = IF d >= ResendWindowMinutes
                           THEN [u \in Users |-> 0]
                           ELSE resendAttempts
    /\ UNCHANGED <<sessions, nSessions, password, issued, revoked, apc, areq, ares,
                   userRequests, calls, apptVars, svcVars, userVars>>

\* res.json(...): the response leaves and the handler is free again
AuthRespond(p) ==
  /\ apc[p] = "done"
  /\ apc' = [apc EXCEPT ![p] = "idle"]
  /\ areq' = [areq EXCEPT ![p] = NoAuthReq]
  /\ ares' = [ares EXCEPT ![p] = NoAuthRes]
  /\ UNCHANGED <<sessions, nSessions, password, clock, issued, revoked, apptVars, svcVars, limVars, userVars>>

NextAuthRequests ==
  \/ \E p \in Procs : LoginStart(p)
  \/ \E p \in Procs : LoginCreate(p)
  \/ \E p \in Procs : LoginNotify(p)
  \/ \E p \in Procs : VerifyStart(p)
  \/ \E p \in Procs : VerifyUpdate(p)
  \/ \E p \in Procs : RefreshToken(p)
  \/ \E p \in Procs : ChangePasswordStart(p)
  \/ \E p \in Procs : ChangePasswordUpdate(p)
  \/ \E p \in Procs : ChangePasswordDelete(p)
  \/ \E p \in Procs : AuthRespond(p)

NextAuth ==
  \/ NextAuthRequests
  \/ AuthTick

\* the session lifecycle: login, verify2FA, refreshToken, changePassword,
\* logout, forgotPassword, resetPassword
NextSessions ==
  \/ NextAuthRequests
  \/ \E p \in Procs : Logout(p)
  \/ \E p \in Procs : ForgotStart(p)
  \/ \E p \in Procs : ForgotCreate(p)
  \/ \E p \in Procs : ForgotSend(p)
  \/ \E p \in Procs : ResetStart(p)
  \/ \E p \in Procs : ResetUpdate(p)
  \/ \E p \in Procs : ResetMark(p)
  \/ \E p \in Procs : ResetDelete(p)
  \/ AuthTick

\* the code of a login session: login, verify2FA, resend2FA
NextResend ==
  \/ \E p \in Procs : LoginStart(p)
  \/ \E p \in Procs : LoginCreate(p)
  \/ \E p \in Procs : LoginNotify(p)
  \/ \E p \in Procs : VerifyStart(p)
  \/ \E p \in Procs : VerifyUpdate(p)
  \/ \E p \in Procs : ResendStart(p)
  \/ \E p \in Procs : ResendCount(p)
  \/ \E p \in Procs : ResendUpdate(p)
  \/ \E p \in Procs : ResendSend(p)
  \/ \E p \in Procs : AuthRespond(p)
  \/ AuthTick

(***************************************************************************)
(* AuthService: login, verifyTwoFactor, refreshToken over the OTPCode and  *)
(* RefreshToken tables. Time is in seconds (`secs`).                       *)
(***************************************************************************)
OtpSeconds == 300
RefreshSeconds == 604800
TickSeconds == 1

NoSvcToken == [userId |-> "nobody", iat |-> 0]

NoSvcReq == [op |-> "none", cpf |-> "nobody", password |-> "pw1", code |-> "c1",
             token |-> NoSvcToken, otpId |-> 0, tokenId |-> 0,
             newToken |-> NoSvcToken]

NoSvcRes == [status |-> "none", refreshToken |-> NoSvcToken]

\* JWTService.generateRefreshToken: jwt.sign({userId, cpf}, JWT_REFRESH_SECRET,
\* {expiresIn: '7d'}) is a function of the user and of the second it runs in
JwtGenerateRefreshToken(userId, t) == [userId |-> userId, iat |-> t]

\* JWTService.verifyRefreshToken: null unless the signature is one of this
\* server and the token is not past its `exp`
JwtVerifyRefreshToken(tok, t) == tok # NoSvcToken /\ t < tok.iat + RefreshSeconds

\* prisma.oTPCode.findFirst({cpf, code, type: 'login', verified: false,
\* expiresAt: {gt: now}}, orderBy: {createdAt: 'desc'})
FindLoginOtp(cpf, code) ==
  LET found == {o \in otps : /\ o.cpf = cpf /\ o.code = code
                             /\ ~o.verified /\ o.expiresAt > secs} IN
  IF found = {} THEN 0
  ELSE (CHOOSE o \in found : \A x \in found : x.id <= o.id).id

\* prisma.refreshToken.findUnique({where: {token}})
FindStoredToken(tok) == {r \in rtokens : r.token = tok}

SInFlight(p) == spc[p] \notin {"idle", "done"}

SFinish(p, st, tok) ==
  /\ spc' = [spc EXCEPT ![p] = "done"]
  /\ sres' = [sres EXCEPT ![p] = [status |-> st, refreshToken |-> tok]]

SBegin(p) ==
  /\ spc[p] = "idle"
  /\ \A q \in Procs : spc[q] # "done"
  /\ \A q \in Procs : q < p => spc[q] # "idle"
  /\ serial => \A q \in Procs : spc[q] = "idle"

\* a record of the RefreshToken table can still be created
TokenRoom ==
  nTokens + Cardinality({q \in Procs : SInFlight(q)
                                        /\ sreq[q].op \in {"verify", "refresh"}})
    < MaxTokens

InitSvc ==
  /\ otps = {}
  /\ nOtps = 0
  /\ rtokens = {}
  /\ nTokens = 0
  /\ handed = {}
  /\ secs = 0
  /\ spc = [p \in Procs |-> "idle"]
  /\ sreq = [p \in Procs |-> NoSvcReq]
  /\ sres = [p \in Procs |-> NoSvcRes]

\* AuthService.login: user.findUnique and bcrypt.compare; the users are the
\* seeded ones, who have twoFactorEnabled
SvcLoginStart(p) ==
  \E c \in Cpfs, pw \in Passwords :
    /\ SBegin(p)
    /\ nOtps + Cardinality({q \in Procs : spc[q] = "sl_create"}) < MaxOtps
    /\ sreq' = [sreq EXCEPT ![p] =
                  [NoSvcReq EXCEPT !.op = "login", !.cpf = c, !.password = pw]]
    /\ IF c \notin Users
         THEN SFinish(p, "UserNotFound", NoSvcToken)
       ELSE IF password[c] # pw
         THEN SFinish(p, "InvalidCredentials", NoSvcToken)
       ELSE /\ spc' = [spc EXCEPT ![p] = "sl_create"]
            /\ UNCHANGED sres
    /\ UNCHANGED <<otps, nOtps, rtokens, nTokens, handed, secs, apptVars, authVars, limVars, userVars>>

\* AuthService.login: generateOTPCode, oTPCode.create, SMSService.sendOTP and
\* the return of requiresTwoFactor
SvcLoginCreate(p) ==
  \E code \in Codes :
    /\ spc[p] = "sl_create"
    /\ nOtps' = nOtps + 1
    /\ otps' = otps \cup
         {[id |-> nOtps + 1, cpf |-> sreq[p].cpf, code |-> code,
           expiresAt |-> secs + OtpSeconds, verified |-> FALSE]}
    /\ SFinish(p, "TwoFactorRequired", NoSvcToken)
    /\ UNCHANGED <<rtokens, nTokens, handed, secs, sreq, apptVars, authVars, limVars, userVars>>

\* AuthService.verifyTwoFactor: oTPCode.findFirst
SvcVerifyStart(p) ==
  \E c \in Users, code \in Codes :
    /\ SBegin(p)
    /\ TokenRoom
    /\ sreq' = [sreq EXCEPT ![p] =
                  [NoSvcReq EXCEPT !.op = "verify", !.cpf = c, !.code = code,
                                   !.otpId = FindLoginOtp(c, code)]]
    /\ IF FindLoginOtp(c, code) = 0
         THEN SFinish(p, "InvalidCode", NoSvcToken)
         ELSE /\ spc' = [spc EXCEPT ![p] = "sv_mark"]
              /\ UNCHANGED sres
    /\ UNCHANGED <<otps, nOtps, rtokens, nTokens, handed, secs, apptVars, authVars, limVars, userVars>>

\* AuthService.verifyTwoFactor: oTPCode.update({where: {id}, data: {verified: true}})
SvcVerifyMark(p) ==
  /\ spc[p] = "sv_mark"
  /\ otps' = {IF o.id = sreq[p].otpId THEN [o EXCEPT !.verified = TRUE] ELSE o
                : o \in otps}
  /\ spc' = [spc EXCEPT ![p] = "sv_user"]
  /\ UNCHANGED <<nOtps, rtokens, nTokens, handed, secs, sreq, sres, apptVars, authVars, limVars, userVars>>

\* AuthService.verifyTwoFactor: user.findUnique, user.update({lastLoginAt}) and
\* the signing of the tokens
SvcVerifyUser(p) ==
  /\ spc[p] = "sv_user"
  /\ sreq' = [sreq EXCEPT ![p].newToken = JwtGenerateRefreshToken(sreq[p].cpf, secs)]
  /\ spc' = [spc EXCEPT ![p] = "sv_create"]
  /\ UNCHANGED <<otps, nOtps, rtokens, nTokens, handed, secs, sres, apptVars, authVars, limVars, userVars>>

\* prisma.refreshToken.create({token, userId, expiresAt: now + 7 days}), which
\* throws on a token that is stored already (token is the key of findUnique)
CreateStoredToken(p) ==
  IF FindStoredToken(sreq[p].newToken) # {}
    THEN /\ SFinish(p, "Conflict", NoSvcToken)
         /\ UNCHANGED <<rtokens, nTokens, handed>>
    ELSE /\ rtokens' = rtokens \cup
              {[id |-> nTokens + 1, token |-> sreq[p].newToken,
                userId |-> sreq[p].newToken.userId,
                expiresAt |-> secs + RefreshSeconds]}
         /\ nTokens' = nTokens + 1
         /\ handed' = handed \cup {sreq[p].newToken}
         /\ SFinish(p, "Tokens", sreq[p].newToken)

\* AuthService.verifyTwoFactor: refreshToken.create and the return of the pair
SvcVerifyCreate(p) ==
  /\ spc[p] = "sv_create"
  /\ CreateStoredToken(p)
  /\ UNCHANGED <<otps, nOtps, secs, sreq, apptVars, authVars, limVars, userVars>>

\* AuthService.refreshToken: verifyRefreshToken, refreshToken.findUnique, the
\* expiry test and the signing of the new tokens
SvcRefreshStart(p) ==
  \E tok \in handed \cup {NoSvcToken} :
    LET found == FindStoredToken(tok) IN
    /\ SBegin(p)
    /\ TokenRoom
    /\ IF ~JwtVerifyRefreshToken(tok, secs)
         THEN /\ sreq' = [sreq EXCEPT ![p] =
                            [NoSvcReq EXCEPT !.op = "refresh", !.token = tok]]
              /\ SFinish(p, "InvalidToken", NoSvcToken)
       ELSE IF found = {}
         THEN /\ sreq' = [sreq EXCEPT ![p] =
                            [NoSvcReq EXCEPT !.op = "refresh", !.token = tok]]
              /\ SFinish(p, "TokenNotFound", NoSvcToken)
       ELSE LET r == CHOOSE x \in found : TRUE IN
            /\ sreq' = [sreq EXCEPT ![p] =
                          [NoSvcReq EXCEPT
                             !.op = "refresh", !.token = tok, !.tokenId = r.id,
                             !.cpf = r.userId,
                             !.newToken = JwtGenerateRefreshToken(r.userId, secs)]]
            /\ spc' = [spc EXCEPT ![p] =
                         IF r.expiresAt < secs THEN "sr_expired" ELSE "sr_delete"]
            /\ UNCHANGED sres
    /\ UNCHANGED <<otps, nOtps, rtokens, nTokens, handed, secs, apptVars, authVars, limVars, userVars>>

\* AuthService.refreshToken: refreshToken.delete({where: {id}}), which throws
\* when the record is gone; of an expired token, followed by 'Token expirado'
SvcRefreshDelete(p) ==
  /\ spc[p] \in {"sr_delete", "sr_expired"}
  /\ IF \A r \in rtokens : r.id # sreq[p].tokenId
       THEN /\ SFinish(p, "NotFound", NoSvcToken)
            /\ UNCHANGED rtokens
     ELSE /\ rtokens' = {r \in rtokens : r.id # sreq[p].tokenId}
          /\ IF spc[p] = "sr_expired"
               THEN SFinish(p, "TokenExpired", NoSvcToken)
               ELSE /\ spc' = [spc EXCEPT ![p] = "sr_create"]
                    /\ UNCHANGED sres
  /\ UNCHANGED <<otps, nOtps, nTokens, handed, secs, sreq, apptVars, authVars, limVars, userVars>>

\* AuthService.refreshToken: refreshToken.create and the return of the pair
SvcRefreshCreate(p) ==
  /\ spc[p] = "sr_create"
  /\ CreateStoredToken(p)
  /\ UNCHANGED <<otps, nOtps, secs, sreq, apptVars, authVars, limVars, userVars>>

\* the clock of the service: the next second, or the seven days of a refresh
\* token
SvcTick ==
  \E d \in {TickSeconds, RefreshSeconds} :
    /\ \A q \in Procs : spc[q] # "done"
    /\ (secs + d) % RefreshSeconds <= MaxSvcTicks * TickSeconds
    /\ secs + d <= RefreshSeconds + MaxSvcTicks * TickSeconds
    /\ secs' = secs + d
    /\ UNCHANGED <<otps, nOtps, rtokens, nTokens, handed, spc, sreq, sres, apptVars, authVars, limVars, userVars>>

\* the promise resolves and the handler is free again
SvcRespond(p) ==
  /\ spc[p] = "done"
  /\ spc' = [spc EXCEPT ![p] = "idle"]
  /\ sreq' = [sreq EXCEPT ![p] = NoSvcReq]
  /\ sres' = [sres EXCEPT ![p] = NoSvcRes]
  /\ UNCHANGED <<otps, nOtps, rtokens, nTokens, handed, secs, apptVars, authVars, limVars, userVars>>

NextSvc ==
  \/ \E p \in Procs : SvcLoginStart(p)
  \/ \E p \in Procs : SvcLoginCreate(p)
  \/ \E p \in Procs : SvcVerifyStart(p)
  \/ \E p \in Procs : SvcVerifyMark(p)
  \/ \E p \in Procs : SvcVerifyUser(p)
  \/ \E p \in Procs : SvcVerifyCreate(p)
  \/ \E p \in Procs : SvcRefreshStart(p)
  \/ \E p \in Procs : SvcRefreshDelete(p)
  \/ \E p \in Procs : SvcRefreshCreate(p)
  \/ \E p \in Procs : SvcRespond(p)
  \/ SvcTick

NextRequests ==
  \/ \E p \in Procs : CreateStart(p)
  \/ \E p \in Procs : CreateCheckDependent(p)
  \/ \E p \in Procs : CreateCheckExisting(p)
  \/ \E p \in Procs : CreateCheckAvailability(p)
  \/ \E p \in Procs : CreateTransaction(p)
  \/ \E p \in Procs : CreateNotify(p)
  \/ \E p \in Procs : UpdateStart(p)
  \/ \E p \in Procs : UpdateCheckExisting(p)
  \/ \E p \in Procs : UpdateCheckAvailability(p)
  \/ \E p \in Procs : UpdateTransaction(p)
  \/ \E p \in Procs : CancelStart(p)
  \/ \E p \in Procs : CancelTransaction(p)
  \/ \E p \in Procs : Respond(p)

NextAppt ==
  \/ NextRequests
  \/ \E p \in Procs : GetAppointment(p)
  \/ \E p \in Procs : SlotsStart(p)
  \/ \E p \in Procs : SlotsFind(p)
  \/ Tick

\* requests of the scheduler interleave at every store access, all of them
\* within one tick of the clock
Init == InitAppt(FALSE) /\ InitAuth /\ InitSvc /\ InitLimiter /\ InitUsers

Spec == Init /\ [][NextRequests]_vars

\* the same requests on a grid in which every slot is free
InitFree == InitGrid(FALSE, {}) /\ InitAuth /\ InitSvc /\ InitLimiter /\ InitUsers

\* the requests of u1 for appointments of their own: create, the updates that
\* name a time or a date and a time, cancel
NextFree ==
  \/ \E p \in Procs : CreateStartFrom(p, {<<"u1", NoDep>>})
  \/ \E p \in Procs : CreateCheckExisting(p)
  \/ \E p \in Procs : CreateCheckAvailability(p)
  \/ \E p \in Procs : CreateTransaction(p)
  \/ \E p \in Procs : CreateNotify(p)
  \/ \E p \in Procs : UpdateStartFrom(p, {"u1"}, RescheduleBodies)
  \/ \E p \in Procs : UpdateCheckExisting(p)
  \/ \E p \in Procs : UpdateCheckAvailability(p)
  \/ \E p \in Procs : UpdateTransaction(p)
  \/ \E p \in Procs : CancelStartFrom(p, {"u1"})
  \/ \E p \in Procs : CancelTransaction(p)
  \/ \E p \in Procs : Respond(p)

SpecFree == InitFree /\ [][NextFree]_vars

\* requests of the scheduler run one after the other
InitSeq == InitAppt(TRUE) /\ InitAuth /\ InitSvc /\ InitLimiter /\ InitUsers

SpecSeq == InitSeq /\ [][NextAppt]_vars

\* createAppointment for a dependent and removeDependent interleave at every
\* store access, and the clock moves between requests and between their steps
NextDependents ==
  \/ \E p \in Procs : CreateStartDependent(p)
  \/ \E p \in Procs : CreateCheckDependent(p)
  \/ \E p \in Procs : CreateCheckExisting(p)
  \/ \E p \in Procs : CreateCheckAvailability(p)
  \/ \E p \in Procs : CreateTransaction(p)
  \/ \E p \in Procs : CreateNotify(p)
  \/ \E p \in Procs : RemoveStart(p)
  \/ \E p \in Procs : RemoveCount(p)
  \/ \E p \in Procs : RemoveUpdate(p)
  \/ \E p \in Procs : Respond(p)
  \/ Tick

SpecDependents == Init /\ [][NextDependents]_vars

\* requests of the authentication controller interleave at every store access,
\* all of them within one tick of the clock
SpecAuth == Init /\ [][NextAuthRequests]_vars

\* requests of the authentication controller run one after the other
SpecAuthSeq == InitSeq /\ [][NextAuth]_vars

\* the requests of the session lifecycle run one after the other
SpecSessions == InitSeq /\ [][NextSessions]_vars

\* login, verify2FA and resend2FA requests run one after the other
SpecResend == InitSeq /\ [][NextResend]_vars

\* requests through one instance of rateLimitByUser, and the clock
NextLimiter ==
  \/ LimitedRequest
  \/ AuthTick

SpecLimiter == Init /\ [][NextLimiter]_vars

\* login, verify2FA, refreshToken and deleteAccount interleave at every store
\* access
NextAccount ==
  \/ \E p \in Procs : LoginStart(p)
  \/ \E p \in Procs : LoginCreate(p)
  \/ \E p \in Procs : LoginNotify(p)
  \/ \E p \in Procs : VerifyStart(p)
  \/ \E p \in Procs : VerifyUpdate(p)
  \/ \E p \in Procs : RefreshToken(p)
  \/ \E p \in Procs : DeleteAccountAuth(p)
  \/ \E p \in Procs : DeleteAccountFind(p)
  \/ \E p \in Procs : DeleteAccountCount(p)
  \/ \E p \in Procs : DeleteAccountTransaction(p)
  \/ \E p \in Procs : AuthRespond(p)

SpecAccount == Init /\ [][NextAccount]_vars

\* createAppointment, login and deleteAccount while the clock moves; the
\* booking requests run one after the other, and so do the account requests
NextDelete ==
  \/ \E p \in Procs : CreateStart(p)
  \/ \E p \in Procs : CreateCheckDependent(p)
  \/ \E p \in Procs : CreateCheckExisting(p)
  \/ \E p \in Procs : CreateCheckAvailability(p)
  \/ \E p \in Procs : CreateTransaction(p)
  \/ \E p \in Procs : CreateNotify(p)
  \/ \E p \in Procs : Respond(p)
  \/ Tick
  \/ \E p \in Procs : LoginStart(p)
  \/ \E p \in Procs : LoginCreate(p)
  \/ \E p \in Procs : LoginNotify(p)
  \/ \E p \in Procs : DeleteAccountAuth(p)
  \/ \E p \in Procs : DeleteAccountFind(p)
  \/ \E p \in Procs : DeleteAccountCount(p)
  \/ \E p \in Procs : DeleteAccountTransaction(p)
  \/ \E p \in Procs : AuthRespond(p)

SpecDelete == InitSeq /\ [][NextDelete]_vars

\* calls of AuthService interleave at every store access
SpecSvc == Init /\ [][NextSvc]_vars

(***************************************************************************)
(* Claims                                                                  *)
(***************************************************************************)
SameSlot(a, b) ==
  a.doctorId = b.doctorId /\ a.date = b.date /\ a.time = b.time

IsScheduled(i) == i \in 1..Len(appointments) /\ appointments[i].status = "SCHEDULED"

\* C1: of the createAppointment requests that run concurrently for one
\* (doctor, date, time), at most one answers 201 with a SCHEDULED appointment:
\* no two handlers hold a Created response for two appointments that are
\* both SCHEDULED on the same slot.
C1_AtMostOneCreateSucceeds ==
  \A p, q \in Procs :
    (/\ p # q
     /\ pc[p] = "done" /\ req[p].op = "create" /\ result[p] = "Created"
     /\ pc[q] = "done" /\ req[q].op = "create" /\ result[q] = "Created"
     /\ IsScheduled(snap[p].id) /\ IsScheduled(snap[q].id))
    => ~SameSlot(appointments[snap[p].id], appointments[snap[q].id])

\* C2: at most one SCHEDULED appointment per (doctor, date, time).
C2_OneScheduledPerSlot ==
  \A i, j \in 1..Len(appointments) :
    (i # j /\ IsScheduled(i) /\ IsScheduled(j))
    => ~SameSlot(appointments[i], appointments[j])

\* C3: the slot of every SCHEDULED appointment is marked booked.
C3_ScheduledSlotBooked ==
  \A i \in 1..Len(appointments) :
    IsScheduled(i) =>
      LET k == Key(appointments[i].doctorId, appointments[i].date, appointments[i].time)
      IN k \in DOMAIN slots /\ slots[k]

\* the slot at (doctor, date, time) cannot be taken: it is booked or not in the grid
BookedOrAbsent(sl, doctorId, date, time) ==
  <<doctorId, date, time>> \notin DOMAIN sl \/ sl[<<doctorId, date, time>>]

\* an appointment other than `id` is SCHEDULED at (doctor, date, time)
OccupiedByOther(ap, doctorId, date, time, id) ==
  \E i \in 1..Len(ap) :
    /\ i # id /\ ap[i].status = "SCHEDULED"
    /\ ap[i].doctorId = doctorId /\ ap[i].date = date /\ ap[i].time = time

\* the (date, time) an update request asks for
AskedDate(p) ==
  IF req[p].date # NoDate THEN req[p].date ELSE appointments[req[p].appointmentId].date
AskedTime(p) ==
  IF req[p].time # NoTime THEN req[p].time ELSE appointments[req[p].appointmentId].time

\* handler p is rescheduling its appointment to another slot
Moving(p) ==
  /\ req[p].op = "update" /\ pc[p] \in {"u_existing", "u_avail", "u_tx"}
  /\ (req[p].date # NoDate \/ req[p].time # NoTime)
  /\ <<AskedDate(p), AskedTime(p)>> #
       <<appointments[req[p].appointmentId].date, appointments[req[p].appointmentId].time>>

DestinationUnavailable(p) ==
  LET a == appointments[req[p].appointmentId] IN
    \/ BookedOrAbsent(slots, a.doctorId, AskedDate(p), AskedTime(p))
    \/ OccupiedByOther(appointments, a.doctorId, AskedDate(p), AskedTime(p),
                       req[p].appointmentId)

C4Step(p) ==
  /\ (Moving(p) /\ DestinationUnavailable(p) /\ pc'[p] # pc[p]) =>
       /\ pc'[p] \in {"u_avail", "done"}
       /\ pc[p] = "u_avail" => pc'[p] = "done"
       /\ pc'[p] = "done" => result'[p] \in {"ConflictAppointment", "ConflictAgenda"}
       /\ slots' = slots
       /\ appointments' = appointments
  /\ (req[p].op = "update" /\ pc[p] = "u_tx" /\ pc'[p] # "u_tx") =>
       LET id == req[p].appointmentId
           a == appointments[id]
           old == <<a.doctorId, a.date, a.time>>
           new == <<a.doctorId, AskedDate(p), AskedTime(p)>> IN
         (slots[old] /\ ~slots'[old]) =>
           /\ new \in DOMAIN slots' /\ slots'[new]
           /\ appointments'[id].date = new[2] /\ appointments'[id].time = new[3]
           /\ appointments'[id].status = "SCHEDULED"

C5Step(p) ==
  /\ (/\ pc[p] = "idle" /\ pc'[p] # "idle" /\ req'[p].op = "cancel"
      /\ req'[p].appointmentId \in 1..Len(appointments)
      /\ appointments[req'[p].appointmentId].userId = req'[p].userId
      /\ appointments[req'[p].appointmentId].status = "SCHEDULED") =>
       LET a == appointments[req'[p].appointmentId]
           k == <<a.doctorId, a.date, a.time>> IN
         /\ appointments' = appointments
         /\ slots' = slots
         /\ k \in DOMAIN slots /\ slots[k]
         /\ IF 24 * a.date + a.time - now < 24
              THEN pc'[p] = "done" /\ result'[p] = "CancellationWindowClosed"
              ELSE pc'[p] = "x_tx"
  /\ (req[p].op = "cancel" /\ pc[p] = "x_tx" /\ pc'[p] # "x_tx") =>
       LET id == req[p].appointmentId
           a == appointments[id]
           k == <<a.doctorId, a.date, a.time>> IN
         /\ pc'[p] = "done" /\ result'[p] = "NoContent"
         /\ appointments'[id].status = "CANCELLED"
         /\ ~BookedOrAbsent(slots', a.doctorId, a.date, a.time)
         /\ ~OccupiedByOther(appointments', a.doctorId, a.date, a.time, 0)

\* C5: cancelling a SCHEDULED appointment less than 24 hours ahead answers
\* CancellationWindowClosed and leaves it SCHEDULED on its booked slot; with
\* 24 hours or more it sets CANCELLED and frees the slot, which no SCHEDULED
\* appointment then occupies, so that a later create passes both checks.
C5_CancelLeadTime == [][\A p \in Procs : C5Step(p)]_vars

\* a create has succeeded on the slot of an appointment cancelled before
C5_Witness ==
  \E p \in Procs :
    /\ pc[p] = "done" /\ req[p].op = "create" /\ result[p] = "Created"
    /\ \E i \in 1..Len(appointments) :
         /\ i < snap[p].id
         /\ appointments[i].status = "CANCELLED"
         /\ SameSlot(appointments[i], appointments[snap[p].id])

\* a verify2FA request of handler p has just run its lookup
VerifyLookedUp(p) == apc[p] = "idle" /\ areq'[p].op = "verify"

SessionVerified(sid) == \E s \in sessions : s.id = sid /\ s.isVerified

SessionPendingWithCode(sid, code) ==
  \E s \in sessions :
    s.id = sid /\ ~s.isVerified /\ s.expiresAt >= clock /\ s.code = code

C6Step(p) ==
  /\ (VerifyLookedUp(p) /\ SessionPendingWithCode(areq'[p].sid, areq'[p].code))
       => apc'[p] = "v_update"
  /\ (apc[p] = "v_update" /\ apc'[p] = "done")
       => /\ ares'[p].status = "Tokens"
          /\ ares'[p].refreshToken # NoToken
          /\ ares'[p].refreshToken \in issued'
          /\ \E s \in sessions' :
               /\ s.id = areq[p].sid
               /\ s.isVerified
               /\ s.refreshToken = ares'[p].refreshToken
  /\ (VerifyLookedUp(p) /\ SessionVerified(areq'[p].sid))
       => /\ apc'[p] = "done"
          /\ ares'[p].status = "InvalidSession"
          /\ ares'[p].refreshToken = NoToken
          /\ sessions' = sessions
          /\ issued' = issued

\* C6: requests running one after the other, a verify2FA call with the code of
\* an unverified, unexpired session goes on to its update, which marks the
\* session verified, stores the refresh token and answers with the tokens;
\* a verify2FA call against a session that is verified answers
\* 'Sessao invalida ou expirada', issues no token and changes no session; a
\* verified session stays verified.
C6_VerifyOnce ==
  [][/\ \A p \in Procs : C6Step(p)
     /\ \A s \in sessions : \A t \in sessions' :
          (s.id = t.id /\ s.isVerified) => t.isVerified]_vars

\* a second verify2FA with the right code against the verified, unexpired
\* session has been refused
C6_Witness ==
  \E p \in Procs :
    /\ apc[p] = "done" /\ areq[p].op = "verify"
    /\ ares[p].status = "InvalidSession"
    /\ \E s \in sessions :
         /\ s.id = areq[p].sid /\ s.isVerified /\ s.code = areq[p].code
         /\ s.expiresAt >= clock /\ s.refreshToken \in issued

\* C7: of the verify2FA requests that run concurrently with the right code for
\* one unverified, unexpired session, at most one answers with a token pair:
\* no two handlers hold a Tokens response for the same session.
C7_AtMostOneVerifyReturnsTokens ==
  \A p, q \in Procs :
    (/\ p # q
     /\ apc[p] = "done" /\ areq[p].op = "verify" /\ ares[p].status = "Tokens"
     /\ apc[q] = "done" /\ areq[q].op = "verify" /\ ares[q].status = "Tokens")
    => areq[p].sid # areq[q].sid

\* C8: a refresh request that succeeds with refresh token T1 answers with a
\* new refresh token T2 # T1 and leaves no stored record holding T1 (so that
\* every later refresh with T1 fails).
C8_RotationOnUse ==
  [][\A p \in Procs :
       (/\ apc[p] = "idle" /\ apc'[p] = "done"
        /\ areq'[p].op = "refresh" /\ ares'[p].status = "AccessToken")
       => /\ ares'[p].refreshToken \notin {NoToken, areq'[p].token}
          /\ \A s \in sessions' : s.refreshToken # areq'[p].token]_vars

\* C9: of the AuthService.refreshToken calls that run concurrently with one
\* stored, unexpired refresh token, at most one returns a new token pair, and
\* once a call has returned its pair the token it presented is no longer
\* stored.
C9_NoStaleTokenReuse ==
  /\ \A p, q \in Procs :
       (/\ p # q
        /\ spc[p] = "done" /\ sreq[p].op = "refresh" /\ sres[p].status = "Tokens"
        /\ spc[q] = "done" /\ sreq[q].op = "refresh" /\ sres[q].status = "Tokens")
       => sreq[p].token # sreq[q].token
  /\ \A p \in Procs :
       (spc[p] = "done" /\ sreq[p].op = "refresh" /\ sres[p].status = "Tokens")
       => \A r \in rtokens : r.token # sreq[p].token

C10Step(p) ==
  /\ (apc[p] = "p_delete" /\ apc'[p] = "done" /\ ares'[p].status = "OK")
       => /\ \A s \in sessions' : s.userId # areq[p].cpf
          /\ \A t \in issued : t.userId = areq[p].cpf => t \in revoked'
  /\ (/\ apc[p] = "idle" /\ apc'[p] = "done" /\ areq'[p].op = "refresh"
      /\ areq'[p].token \in revoked)
       => ares'[p].status \in {"Unauthorized", "InternalError"}

\* C10: requests interleaving at every store access, the step of
\* changePassword that answers 200 for user U leaves no AuthSession record of
\* U, and a refresh request presenting a refresh token that had been handed
\* to U before that step is refused.
C10_PasswordChangeRevokes == [][\A p \in Procs : C10Step(p)]_vars

\* a refresh token of before the password change has been presented and
\* refused with 401
C10_Witness ==
  \E p \in Procs :
    /\ apc[p] = "done" /\ areq[p].op = "refresh"
    /\ areq[p].token \in revoked
    /\ ares[p].status = "Unauthorized"

\* C11: the step of logout that answers 200 for user U leaves no AuthSession
\* record of U, verified or unverified.
C11_LogoutRemovesAllSessions ==
  [][\A p \in Procs :
       (/\ apc[p] = "idle" /\ apc'[p] = "done"
        /\ areq'[p].op = "logout" /\ ares'[p].status = "OK")
       => \A s \in sessions' : s.userId # areq'[p].cpf]_vars

\* C12: verify2FA issues tokens only for a session that login created, and
\* resetPassword changes the password only for a session that forgotPassword
\* created.
C12_SessionsTypedByPurpose ==
  [][\A p \in Procs :
       /\ (apc[p] = "v_update" /\ apc'[p] = "done" /\ ares'[p].status = "Tokens")
            => \A s \in sessions : s.id = areq[p].sid => s.purpose = "login"
       /\ (apc[p] = "rp_update" /\ apc'[p] = "rp_mark")
            => \A s \in sessions : s.id = areq[p].sid => s.purpose = "reset"]_vars

\* the answer of verify2FA to a session reference that is not stored
UnknownSessionAnswer == "InvalidSession"

\* C13: verify2FA answers the right code of an expired session, a wrong code
\* for an unexpired session and an unknown session reference with one and
\* the same failure response.
C13_VerifyFailuresIdentical ==
  \A p \in Procs :
    (/\ apc[p] = "done" /\ areq[p].op = "verify"
     /\ \/ \A s \in sessions : s.id # areq[p].sid
        \/ \E s \in sessions :
             /\ s.id = areq[p].sid /\ ~s.isVerified
             /\ \/ s.expiresAt < clock /\ s.code = areq[p].code
                \/ s.expiresAt >= clock /\ s.code # areq[p].code)
    => ares[p].status = UnknownSessionAnswer

\* the error of AuthService.login for a CPF that is not stored
SvcUnknownUserError == "UserNotFound"

\* C14: login fails in the same way for an unknown CPF and for a known CPF
\* with a wrong password, and creates no record in either case.
C14_LoginFailuresIdentical ==
  [][\A p \in Procs :
       (/\ spc[p] = "idle" /\ spc'[p] = "done" /\ sreq'[p].op = "login"
        /\ \/ sreq'[p].cpf \notin Users
           \/ password[sreq'[p].cpf] # sreq'[p].password)
       => /\ sres'[p].status = SvcUnknownUserError
          /\ otps' = otps
          /\ sessions' = sessions]_vars

\* C15: each user has at most one AuthSession that is both unexpired and
\* unverified.
C15_OnePendingSessionPerUser ==
  \A u \in Users :
    Cardinality({s \in sessions :
                   s.userId = u /\ ~s.isVerified /\ s.expiresAt >= clock}) <= 1

\* C16: resend2FA on an unverified session replaces the session's code and
\* sets its expiry to 5 minutes from now; a resend request of a user who has
\* already made ResendLimit resend requests inside the window answers
\* RateLimited (the 429 of the route limiter or of the handler's own count)
\* and leaves the code and the expiry of every session unchanged.
C16_ResendRateLimited ==
  [][\A p \in Procs :
       /\ (apc[p] = "rs_update" /\ apc'[p] = "rs_send")
            => \E s \in sessions' :
                 /\ s.id = areq[p].sid
                 /\ s.code = areq'[p].code
                 /\ s.expiresAt = clock + OtpMinutes
       /\ (areq[p].op = "resend" /\ areq[p].prior >= ResendLimit /\ AInFlight(p))
            => /\ sessions' = sessions
               /\ apc'[p] = "done" => ares'[p].status \in {"RateLimited", "TooManyRequests"}]_vars

\* C17: a login with the right password creates an AuthSession that expires
\* 5 minutes later and answers with its session reference and the 300-second
\* countdown whether the code was delivered or not; the session stays stored,
\* and a resend that names it passes the lookup and the count and replaces
\* its code.
C17Step(p) ==
  /\ (apc[p] = "l_create" /\ apc'[p] # "l_create")
       => \E s \in sessions' \ sessions :
            /\ s.id = areq'[p].sid
            /\ s.userId = areq[p].cpf
            /\ ~s.isVerified
            /\ s.expiresAt = clock + 5
  /\ (apc[p] = "l_notify" /\ apc'[p] # "l_notify")
       => /\ apc'[p] = "done"
          /\ ares'[p].status = "TwoFactorRequired"
          /\ ares'[p].sid = areq[p].sid
          /\ ares'[p].expiresIn = 300
          /\ sessions' = sessions
          /\ \E s \in sessions : s.id = areq[p].sid /\ ~s.isVerified
  /\ (/\ apc[p] = "idle" /\ areq'[p].op = "resend"
      /\ \E s \in sessions : s.id = areq'[p].sid /\ ~s.isVerified)
       => apc'[p] = "rs_count"
  /\ (/\ apc[p] = "rs_count" /\ apc'[p] # "rs_count"
      /\ Cardinality({s \in sessions : s.userId = areq[p].cpf}) <= 3)
       => apc'[p] = "rs_update"
  /\ (apc[p] = "rs_update" /\ apc'[p] # "rs_update")
       => /\ apc'[p] = "rs_send"
          /\ \E s \in sessions' : s.id = areq[p].sid /\ s.expiresAt = clock + 5

FutureScheduledOf(dep) ==
  \E i \in 1..Len(appointments) :
    /\ appointments[i].dependentId = dep
    /\ appointments[i].status = "SCHEDULED"
    /\ 24 * appointments[i].date + appointments[i].time > now

C18_NoRemovedDependentBooked ==
  /\ \A dep \in DepIds : ~dependents[dep].isActive => ~FutureScheduledOf(dep)
  /\ \A p \in Procs :
       (pc[p] = "done" /\ req[p].op = "removeDependent" /\ result[p] = "NoContent")
         => ~FutureScheduledOf(req[p].dependentId)

\* C19: createAppointment fails, creates no appointment and changes no slot
\* flag whenever the doctor does not belong to the unit and specialty or is
\* inactive, the dependent is not an active dependent of the caller, the date
\* is in the past, the slot is booked or absent from the grid, or a SCHEDULED
\* appointment occupies (doctor, date, time).
CreateErrors == {"ValidationError", "BadRequest", "ConflictAppointment",
                 "ConflictAgenda", "NotFound"}

RejectedAtEntry(r) ==
  \/ 24 * r.date < now
  \/ Doctor[r.doctorId].unitId # r.unitId
  \/ Doctor[r.doctorId].specialtyId # r.specialtyId
  \/ ~Doctor[r.doctorId].isActive

MustFail(r) ==
  \/ r.dependentId # NoDep /\ dependents[r.dependentId].userId # r.userId
  \/ <<r.doctorId, r.date, r.time>> \notin DOMAIN slots
  \/ slots[<<r.doctorId, r.date, r.time>>]
  \/ \E i \in 1..Len(appointments) :
       /\ appointments[i].doctorId = r.doctorId
       /\ appointments[i].date = r.date
       /\ appointments[i].time = r.time
       /\ appointments[i].status = "SCHEDULED"

C19Step(p) ==
  /\ (pc[p] = "idle" /\ req'[p].op = "create" /\ RejectedAtEntry(req'[p]))
       => /\ pc'[p] = "done"
          /\ result'[p] \in CreateErrors
          /\ appointments' = appointments
          /\ slots' = slots
  /\ (/\ pc[p] \in {"c_dep", "c_existing", "c_avail", "c_tx"} /\ pc'[p] # pc[p]
      /\ MustFail(req[p]))
       => /\ appointments' = appointments
          /\ slots' = slots
          /\ pc'[p] # "c_notify"
          /\ pc'[p] = "done" => result'[p] \in CreateErrors

C19_FailedCreateLeavesNoTrace == [][\A p \in Procs : C19Step(p)]_vars

\* C20: once the booking transaction has committed, createAppointment answers
\* 201 and leaves the appointment and the slot reservation as committed,
\* whether the SMS and the email confirmation were delivered or not.
C20Step(p) ==
  (pc[p] = "c_notify" /\ pc'[p] # "c_notify")
    => /\ pc'[p] = "done"
       /\ result'[p] = "Created"
       /\ appointments' = appointments
       /\ slots' = slots
       /\ snap[p].id \in 1..Len(appointments')
       /\ appointments'[snap[p].id].status = "SCHEDULED"
       /\ slots'[<<snap[p].doctorId, snap[p].date, snap[p].time>>]

C20_BookingSurvivesFailedConfirmation == [][\A p \in Procs : C20Step(p)]_vars

\* a create has answered 201 although neither confirmation was delivered,
\* and its appointment and slot reservation stand
C20_Witness ==
  \E p \in Procs :
    /\ pc[p] = "done"
    /\ req[p].op = "create"
    /\ result[p] = "Created"
    /\ ~confirmation[p].sms
    /\ ~confirmation[p].email
    /\ appointments[snap[p].id].status = "SCHEDULED"
    /\ slots[<<snap[p].doctorId, snap[p].date, snap[p].time>>]

\* C21: an appointment whose status is CANCELLED, COMPLETED or NO_SHOW never
\* has its date, time or status changed, and the transaction of an update or
\* a cancel that works on such an appointment marks no slot booked or free.
C21_OnlyScheduledChange ==
  [][/\ \A i \in 1..Len(appointments) :
          appointments[i].status # "SCHEDULED"
            => /\ appointments'[i].date = appointments[i].date
               /\ appointments'[i].time = appointments[i].time
               /\ appointments'[i].status = appointments[i].status
     /\ \A p \in Procs :
          (/\ pc[p] \in {"u_tx", "x_tx"} /\ pc'[p] # pc[p]
           /\ appointments[snap[p].id].status # "SCHEDULED")
            => slots' = slots]_vars

\* C22: for a user whose active flag is false, login creates no session,
\* verify2FA and refreshToken issue no token, and no create, reschedule or
\* cancel request succeeds, also when deleteAccount comes between the steps
\* of a login or a verification.
C22_InactiveUserBlocked ==
  [][\A p \in Procs :
       /\ (apc[p] = "l_create" /\ sessions' # sessions) => active[areq[p].cpf]
       /\ (apc[p] = "v_update" /\ apc'[p] = "done" /\ ares'[p].status = "Tokens")
            => active[areq[p].cpf]
       /\ (apc[p] = "idle" /\ apc'[p] = "done" /\ ares'[p].status = "AccessToken")
            => active[areq'[p].token.userId]
       /\ (/\ pc[p] # "done" /\ pc'[p] = "done"
           /\ req'[p].op \in {"create", "update", "cancel"}
           /\ result'[p] \in {"Created", "OK", "NoContent"})
            => active[req'[p].userId]]_vars

\* C23: a request to read, reschedule or cancel an appointment that belongs
\* to another user is answered NotFound and changes neither an appointment
\* nor a slot.
C23Step(p) ==
  (/\ pc[p] = "idle" /\ pc'[p] # "idle"
   /\ req'[p].op \in {"get", "update", "cancel"}
   /\ req'[p].appointmentId \in 1..Len(appointments)
   /\ appointments[req'[p].appointmentId].userId # req'[p].userId)
    => /\ pc'[p] = "done"
       /\ result'[p] = "NotFound"
       /\ appointments' = appointments
       /\ slots' = slots

C23_OnlyOwnerReaches == [][\A p \in Procs : C23Step(p)]_vars

\* a user has asked to reschedule or cancel a SCHEDULED appointment of
\* another user and has the 404
C23_Witness ==
  \E p \in Procs :
    /\ pc[p] = "done"
    /\ req[p].op \in {"update", "cancel"}
    /\ req[p].appointmentId \in 1..Len(appointments)
    /\ appointments[req[p].appointmentId].userId # req[p].userId
    /\ appointments[req[p].appointmentId].status = "SCHEDULED"
    /\ result[p] = "NotFound"

\* C24: deleteAccount removes no User and no Appointment record; it fails and
\* changes nothing when the password is wrong or the user has a SCHEDULED
\* appointment in the future; otherwise one step sets the user and all of
\* the user's dependents inactive and deletes all of the user's sessions.
HasFutureScheduled(userId) ==
  \E i \in 1..Len(appointments) :
    /\ appointments[i].userId = userId
    /\ appointments[i].status = "SCHEDULED"
    /\ 24 * appointments[i].date + appointments[i].time > now

C24Step(p) ==
  /\ (areq[p].op = "deleteAccount" /\ apc[p] # apc'[p] /\ apc[p] # "done")
       => /\ appointments' = appointments
          /\ DOMAIN active' = DOMAIN active
          /\ \/ /\ apc'[p] = "done" /\ ares'[p].status = "OK"
                /\ ~active'[areq[p].cpf]
                /\ \A d \in DepIds :
                     dependents[d].userId = areq[p].cpf => ~dependents'[d].isActive
                /\ \A s \in sessions' : s.userId # areq[p].cpf
             \/ /\ ~(apc'[p] = "done" /\ ares'[p].status = "OK")
                /\ active' = active
                /\ dependents' = dependents
                /\ sessions' = sessions
  /\ (/\ areq[p].op = "deleteAccount" /\ apc[p] # "done" /\ apc'[p] = "done"
      /\ \/ password[areq[p].cpf] # areq[p].password
         \/ HasFutureScheduled(areq[p].cpf))
       => ares'[p].status # "OK"

C24_DeleteAccountSoft == [][\A p \in Procs : C24Step(p)]_vars

\* C25: resetPassword with the matching code on an unexpired, unused reset
\* session changes the password, marks the session used and deletes every
\* other AuthSession of the user; a later call with the same session and
\* code fails and leaves the password unchanged; a call with a wrong code
\* changes neither the password nor any session.
C25Step(p) ==
  /\ (apc[p] = "idle" /\ areq'[p].op = "reset")
       => /\ (\E s \in sessions :
                /\ s.id = areq'[p].sid /\ s.purpose = "reset" /\ ~s.isVerified
                /\ s.expiresAt >= clock /\ s.code = areq'[p].code)
               => apc'[p] = "rp_update"
          /\ (\E s \in sessions :
                /\ s.id = areq'[p].sid
                /\ s.isVerified \/ s.code # areq'[p].code)
               => /\ apc'[p] = "done"
                  /\ ares'[p].status \in {"InvalidSession", "WrongCode"}
                  /\ password' = password
                  /\ sessions' = sessions
  /\ (apc[p] = "rp_update" /\ apc'[p] # "rp_update")
       => password'[areq[p].cpf] = areq[p].newPassword
  /\ (apc[p] = "rp_delete" /\ apc'[p] # "rp_delete")
       => /\ apc'[p] = "done"
          /\ ares'[p].status = "PasswordReset"
          /\ password'[areq[p].cpf] = areq[p].newPassword
          /\ \E s \in sessions' : s.id = areq[p].sid /\ s.isVerified
          /\ \A s \in sessions' : s.userId = areq[p].cpf => s.id = areq[p].sid

C26Step(p) ==
  /\ (req'[p].op = "slots" /\ pc[p] # pc'[p])
       => slots' = slots /\ appointments' = appointments
  /\ (/\ pc[p] = "idle" /\ req'[p].op = "slots"
      /\ Doctor[req'[p].doctorId].unitId = req'[p].unitId
      /\ Doctor[req'[p].doctorId].isActive
      /\ req'[p].date >= now \div HoursPerDay)
       => pc'[p] = "s_find"
  /\ (pc[p] = "s_find" /\ pc'[p] # "s_find")
       => /\ pc'[p] = "done"
          /\ result'[p] = "OK"
          /\ \A t \in Times :
               (\E i \in 1..Len(listing'[p]) : listing'[p][i] = t)
                 <=> /\ <<req[p].doctorId, req[p].date, t>> \in DOMAIN slots
                     /\ ~slots[<<req[p].doctorId, req[p].date, t>>]
          /\ \A i, j \in 1..Len(listing'[p]) :
               i < j => listing'[p][i] < listing'[p][j]

C27_BookedSlotOccupied ==
  \A k \in DOMAIN slots :
    slots[k] =>
      \E i \in 1..Len(appointments) :
        /\ appointments[i].status = "SCHEDULED"
        /\ <<appointments[i].doctorId, appointments[i].date, appointments[i].time>> = k

\* the requests of u that were passed on from the start of the window of u
\* that is open until its resetTime
PassedInWindow(u) ==
  {i \in 1..Len(calls) :
     /\ calls[i].user = u
     /\ calls[i].status = "next"
     /\ calls[i].at >= userRequests[u].resetTime - ChangePasswordWindowMinutes
     /\ calls[i].at <= userRequests[u].resetTime}

\* C28: for one instance and one authenticated user at most maxRequests
\* requests are passed on between the first request of a window and its
\* resetTime; a further request before resetTime is answered 429 and the
\* count stays; the first request after resetTime is passed on and opens a
\* window with count 1; a request without a user is passed on and not counted.
C28Step ==
  Len(calls') > Len(calls) =>
    LET u == calls'[Len(calls')].user
        answer == calls'[Len(calls')].status
    IN IF u = NoUser
         THEN answer = "next" /\ userRequests' = userRequests
       ELSE IF userRequests[u].count > 0 /\ clock > userRequests[u].resetTime
         THEN /\ answer = "next"
              /\ userRequests'[u].count = 1
              /\ userRequests'[u].resetTime = clock + ChangePasswordWindowMinutes
       ELSE IF /\ userRequests[u].count > 0 /\ clock < userRequests[u].resetTime
               /\ Cardinality(PassedInWindow(u)) >= ChangePasswordLimit
         THEN answer = "429" /\ userRequests' = userRequests
       ELSE TRUE

C29Step(p) ==
  /\ (/\ areq'[p].op = "verify"
      /\ apc[p] # "done" /\ apc'[p] = "done"
      /\ ares'[p].status # "Tokens")
       => sessions' = sessions
  /\ (/\ apc[p] = "idle" /\ areq'[p].op = "verify"
      /\ \E s \in sessions :
           /\ s.id = areq'[p].sid
           /\ s.code = areq'[p].code
           /\ ~s.isVerified
           /\ s.expiresAt >= clock)
       => apc'[p] = "v_update"
  /\ (areq[p].op = "verify" /\ apc[p] = "v_update" /\ apc'[p] = "done")
       => /\ ares'[p].status = "Tokens"
          /\ \E s \in sessions' : s.id = areq[p].sid /\ s.isVerified

Unverified(ss, sid) == \E s \in ss : s.id = sid /\ ~s.isVerified

\* the steps of resend2FA and of the verify2FA that follows it
C30Resend(p) ==
  /\ (/\ apc[p] = "idle" /\ areq'[p].op = "resend"
      /\ Unverified(sessions, areq'[p].sid))
       => apc'[p] = "rs_count"
  /\ (/\ apc[p] = "idle" /\ areq'[p].op = "resend"
      /\ ~Unverified(sessions, areq'[p].sid))
       => /\ apc'[p] = "done"
          /\ ares'[p].status = "SessionNotFound"
          /\ sessions' = sessions
  /\ (/\ areq[p].op = "resend" /\ apc[p] = "rs_count" /\ apc'[p] # apc[p]
      /\ RecentSessions(areq[p].cpf) <= ResendMaxSessions)
       => apc'[p] = "rs_update"
  /\ (areq[p].op = "resend" /\ apc[p] = "rs_update" /\ apc'[p] # apc[p])
       => /\ apc'[p] = "rs_send"
          /\ \E s \in sessions' :
               /\ s.id = areq[p].sid
               /\ ~s.isVerified
               /\ s.expiresAt >= clock
               /\ s.code = areq'[p].code
  /\ (areq[p].op = "resend" /\ apc[p] = "rs_send" /\ apc'[p] # apc[p])
       => /\ apc'[p] = "done"
          /\ ares'[p].status \in {"Resent", "InternalError"}
          /\ sessions' = sessions

C30Verify(p) ==
  /\ (/\ apc[p] = "idle" /\ areq'[p].op = "verify"
      /\ \E s \in sessions :
           s.id = areq'[p].sid /\ ~s.isVerified /\ s.expiresAt >= clock)
       => \E s \in sessions :
            /\ s.id = areq'[p].sid
            /\ IF s.code = areq'[p].code
                 THEN apc'[p] = "v_update"
                 ELSE apc'[p] = "done" /\ ares'[p].status = "WrongCode"
  /\ (areq[p].op = "verify" /\ apc[p] = "v_update" /\ apc'[p] # apc[p])
       => apc'[p] = "done" /\ ares'[p].status = "Tokens"

\* the update of resend2FA stores a code other than the one it replaces
C30OldCodeReplaced(p) ==
  (areq[p].op = "resend" /\ apc[p] = "rs_update" /\ apc'[p] # apc[p])
    => \A s \in sessions : s.id = areq[p].sid => s.code # areq'[p].code

\* C30: resend2FA is accepted for an unverified session whatever its expiry
\* and refused for a verified one; after it the session is unexpired again,
\* a delivery failure included, verify2FA with the new code succeeds, and
\* the code that was stored before the resend is no longer accepted.
C30_ResendRenewsSession ==
  [][\A p \in Procs : C30Resend(p) /\ C30Verify(p) /\ C30OldCodeReplaced(p)]_vars

====
